---- MODULE Spec2Model ----
(***************************************************************************)
(* A model of the skyrim_savegame decoder: the SaveFileReader byte cursor, *)
(* the vsval and RefId codecs, the global-data dispatcher, the change-form *)
(* decoder and parse_save_file.  A panic of the Rust code (an index out of *)
(* range, a failed expect/assert, an explicit panic!) is the value         *)
(* Fail(..) of the operators and the variable panic of the state machines. *)
(***************************************************************************)
EXTENDS Integers, Sequences, FiniteSets, TLC

VARIABLES
    sfr,             \* the SaveFileReader over the input file: [index, buffer]
    sfr_body,        \* the SaveFileReader over the (decompressed) body
    pc,              \* the statement parse_save_file (or its caller) is at
    panic,           \* "none", or the reason the decode panicked
    save,            \* the fields of the SaveFile decoded so far
    loop,            \* the running count-driven loop: remaining count, results
    last,            \* the last reader call: name, argument, offset before, result
    overflow_checks, \* the build profile: TRUE panics on integer overflow (debug)
    truncated        \* whether the buffer is one a decode succeeded on, cut by
                     \* its last byte, and what that decode was like

vars == <<sfr, sfr_body, pc, panic, save, loop, last, overflow_checks, truncated>>

(***************************************************************************)
(* Bounds of the model.                                                    *)
(***************************************************************************)
MaxLen == 4
MaxRecords == 2

(***************************************************************************)
(* Machine integers.                                                       *)
(***************************************************************************)
Pow2(n) == 2 ^ n

Byte == 0 .. 255

RECURSIVE BitXor(_, _)
BitXor(a, b) ==
    IF a = 0 THEN b
    ELSE IF b = 0 THEN a
    ELSE (((a % 2) + (b % 2)) % 2) + 2 * BitXor(a \div 2, b \div 2)

RECURSIVE BitAnd(_, _)
BitAnd(a, b) ==
    IF a = 0 \/ b = 0 THEN 0
    ELSE ((a % 2) * (b % 2)) + 2 * BitAnd(a \div 2, b \div 2)

\* x << n in an unsigned integer of w bits: the high n bits are lost
Shl(x, n, w) == (x % Pow2(w - n)) * Pow2(n)

\* x >> n
Shr(x, n) == x \div Pow2(n)

\* u16::from_le_bytes
U16FromLeBytes(bytes) == bytes[1] + 256 * bytes[2]

\* A u32 read from the stream is kept as two 16-bit halves, hi * 2^16 + lo,
\* so that all 2^32 values are distinct values of the model.
U32(hi, lo) == [hi |-> hi, lo |-> lo]

\* u32::from_le_bytes
U32FromLeBytes(bytes) ==
    U32(bytes[3] + 256 * bytes[4], bytes[1] + 256 * bytes[2])

\* The u32 of a number below 2^31
U32Of(n) == U32(n \div 65536, n % 65536)

U32Zero == U32(0, 0)

U32Max == U32(65535, 65535)

U32Less(a, b) == a.hi < b.hi \/ (a.hi = b.hi /\ a.lo < b.lo)

\* u32 + u32: the sum modulo 2^32 and whether it overflowed
U32Add(a, b) ==
    LET lo == a.lo + b.lo
        hi == a.hi + b.hi + (lo \div 65536)
    IN [overflow |-> hi >= 65536, value |-> U32(hi % 65536, lo % 65536)]

\* The four base-256 digits of a u32, least significant first
U32Digits(a) == <<a.lo % 256, a.lo \div 256, a.hi % 256, a.hi \div 256>>

\* u32 * u32: the product modulo 2^32 and whether it overflowed
U32Mul(a, b) ==
    LET x == U32Digits(a)
        y == U32Digits(b)
        \* column k (0-based) of the schoolbook product, before carries
        col(k) == LET RECURSIVE Sum(_)
                      Sum(i) == IF i > 3 THEN 0
                                ELSE (IF k - i >= 0 /\ k - i <= 3
                                      THEN x[i + 1] * y[k - i + 1] ELSE 0)
                                     + Sum(i + 1)
                  IN Sum(0)
        RECURSIVE Carry(_)
        \* the carry into column k
        Carry(k) == IF k = 0 THEN 0 ELSE (col(k - 1) + Carry(k - 1)) \div 256
        digit(k) == (col(k) + Carry(k)) % 256
    IN [overflow |-> \E k \in 4 .. 7 : digit(k) # 0,
        value |-> U32(digit(2) + 256 * digit(3), digit(0) + 256 * digit(1))]

\* A usize holds every u32.  The lengths of the model's buffers are far below
\* 2^31, so a usize of 2^31 or more is kept as UsizeHuge, which exceeds them
\* all.
UsizeHuge == (Pow2(30) - 1) * 2 + 1

AsUsize(a) == IF a.hi >= 32768 THEN UsizeHuge ELSE a.hi * 65536 + a.lo

\* i32::from_le_bytes: two's complement
I32FromLeBytes(bytes) ==
    (IF bytes[4] >= 128 THEN bytes[4] - 256 ELSE bytes[4]) * Pow2(24)
    + bytes[3] * 65536 + bytes[2] * 256 + bytes[1]

\* f32::from_le_bytes: the IEEE-754 bit pattern, kept as sign, exponent, fraction
F32FromLeBytes(bytes) ==
    [sign |-> bytes[4] \div 128,
     exponent |-> (bytes[4] % 128) * 2 + (bytes[3] \div 128),
     fraction |-> (bytes[3] % 128) * 65536 + bytes[2] * 256 + bytes[1]]

\* u16::to_le_bytes, u32::to_le_bytes
U16ToLeBytes(x) == <<x % 256, x \div 256>>

U32ToLeBytes(a) == U32Digits(a)

(***************************************************************************)
(* std::str::from_utf8: whether a byte sequence is well-formed UTF-8.      *)
(***************************************************************************)
IsCont(b) == b >= 128 /\ b <= 191

\* The length of the well-formed sequence that starts at s[i], 0 when there
\* is none
Utf8Width(s, i) ==
    LET b == s[i]
        has(k) == i + k <= Len(s)
    IN IF b <= 127 THEN 1
       ELSE IF b >= 194 /\ b <= 223
       THEN IF has(1) /\ IsCont(s[i + 1]) THEN 2 ELSE 0
       ELSE IF b = 224
       THEN IF has(2) /\ s[i + 1] >= 160 /\ s[i + 1] <= 191 /\ IsCont(s[i + 2])
            THEN 3 ELSE 0
       ELSE IF (b >= 225 /\ b <= 236) \/ b = 238 \/ b = 239
       THEN IF has(2) /\ IsCont(s[i + 1]) /\ IsCont(s[i + 2]) THEN 3 ELSE 0
       ELSE IF b = 237
       THEN IF has(2) /\ s[i + 1] >= 128 /\ s[i + 1] <= 159 /\ IsCont(s[i + 2])
            THEN 3 ELSE 0
       ELSE IF b = 240
       THEN IF has(3) /\ s[i + 1] >= 144 /\ s[i + 1] <= 191
               /\ IsCont(s[i + 2]) /\ IsCont(s[i + 3])
            THEN 4 ELSE 0
       ELSE IF b >= 241 /\ b <= 243
       THEN IF has(3) /\ IsCont(s[i + 1]) /\ IsCont(s[i + 2]) /\ IsCont(s[i + 3])
            THEN 4 ELSE 0
       ELSE IF b = 244
       THEN IF has(3) /\ s[i + 1] >= 128 /\ s[i + 1] <= 143
               /\ IsCont(s[i + 2]) /\ IsCont(s[i + 3])
            THEN 4 ELSE 0
       ELSE 0

Width(n, rest(_)) == \E w \in {n} : w > 0 /\ rest(w)

RECURSIVE Utf8From(_, _)
Utf8From(s, i) ==
    i > Len(s) \/ Width(Utf8Width(s, i), LAMBDA n : Utf8From(s, i + n))

from_utf8_ok(s) == Utf8From(s, 1)

(***************************************************************************)
(* Results of a call: Ok carries the advanced reader and the value, Fail   *)
(* the reader as the panic left it and the reason.                         *)
(***************************************************************************)
Ok(r, v) == [ok |-> TRUE, r |-> r, val |-> v, err |-> "none"]

Fail(r, e) == [ok |-> FALSE, r |-> r, val |-> <<>>, err |-> e]

\* f of the value v, v being evaluated once
Once(v, f(_)) == CHOOSE out \in {f(x) : x \in {v}} : TRUE

\* A call whose result is mapped by f when it did not panic
Map(res, f(_)) == Once(res, LAMBDA v : IF v.ok THEN Ok(v.r, f(v.val)) ELSE v)

\* Two calls in sequence: g gets the reader and the value of the first
Then(res, g(_, _)) == Once(res, LAMBDA v : IF v.ok THEN g(v.r, v.val) ELSE v)

OutOfBounds == "out_of_bounds"

\* SaveFileReader::new
NewReader(buffer) == [index |-> 0, buffer |-> buffer]

\* &self.buffer[self.index..self.index + bytes]; self.index += bytes
read_bytes(r, bytes) ==
    IF bytes > Len(r.buffer) - r.index
    THEN Fail(r, OutOfBounds)
    ELSE Ok([r EXCEPT !.index = @ + bytes],
            SubSeq(r.buffer, r.index + 1, r.index + bytes))

read_bytes_to_vec(r, bytes) == read_bytes(r, bytes)

\* read_u8 without the bounds check of the index expression
read_u8_unchecked(r) ==
    Ok([r EXCEPT !.index = @ + 1],
       IF r.index < Len(r.buffer) THEN r.buffer[r.index + 1] ELSE 0)

read_u8(r) ==
    IF r.index >= Len(r.buffer)
    THEN Fail(r, OutOfBounds)
    ELSE Ok([r EXCEPT !.index = @ + 1], r.buffer[r.index + 1])

read_u16(r) == Map(read_bytes(r, 2), U16FromLeBytes)

\* read_u32 with u32::from_be_bytes
read_u32_big_endian(r) ==
    Map(read_bytes(r, 4),
        LAMBDA bytes : U32FromLeBytes(<<bytes[4], bytes[3], bytes[2], bytes[1]>>))

read_u32(r) == Map(read_bytes(r, 4), U32FromLeBytes)

read_i32(r) == Map(read_bytes_to_vec(r, 4), I32FromLeBytes)

read_f32(r) == Map(read_bytes_to_vec(r, 4), F32FromLeBytes)

VSVal(kind, x) == [kind |-> kind, x |-> x]

\* The match on first_byte & 0b00000011, given how the two- and the
\* three-byte value are put together from the bytes read
vsval_match(r, first_byte, u16_of(_), u32_of(_, _)) ==
    CASE BitAnd(first_byte, 3) = 0 ->
           Ok(r, VSVal("U8", Shr(BitAnd(first_byte, 252), 2)))
      [] BitAnd(first_byte, 3) = 1 ->
           Map(read_u8(r), LAMBDA second : VSVal("U16", u16_of(second)))
      [] BitAnd(first_byte, 3) = 2 ->
           Then(read_u8(r), LAMBDA r2, second :
               Map(read_u8(r2), LAMBDA third : VSVal("U32", u32_of(second, third))))
      [] OTHER -> Ok(r, VSVal("U8", 0))

\* read_vsval with the width tag left in the two- and three-byte values
read_vsval_unshifted(r) ==
    Then(read_u8(r), LAMBDA r1, first_byte :
        vsval_match(r1, first_byte,
            LAMBDA second : BitXor(Shl(second, 8, 16), Shr(first_byte, 2)),
            LAMBDA second, third :
                BitXor(BitXor(Shl(third, 16, 32), Shl(second, 8, 32)),
                       Shr(first_byte, 2))))

\* read_vsval with the three-byte value put together in 16 bits
read_vsval_third_byte_lost(r) ==
    Then(read_u8(r), LAMBDA r1, first_byte :
        vsval_match(r1, first_byte,
            LAMBDA second : Shr(BitXor(Shl(second, 8, 16), first_byte), 2),
            LAMBDA second, third :
                Shr(BitXor(BitXor(Shl(third, 16, 16), Shl(second, 8, 16)),
                           first_byte), 2)))

read_vsval(r) ==
    Then(read_u8(r), LAMBDA r1, first_byte :
        vsval_match(r1, first_byte,
            LAMBDA second : Shr(BitXor(Shl(second, 8, 16), first_byte), 2),
            LAMBDA second, third :
                Shr(BitXor(BitXor(Shl(third, 16, 32), Shl(second, 8, 32)),
                           first_byte), 2)))

\* The u32 of every variant; no vsval reaches 2^22
read_vsval_to_u32(r) == Map(read_vsval(r), LAMBDA v : U32Of(v.x))

\* The sentinel String of read_w_string, as its UTF-8 bytes
\* ("Error while parsing string!")
StringParseError ==
    <<69, 114, 114, 111, 114, 32, 119, 104, 105, 108, 101, 32, 112, 97, 114,
      115, 105, 110, 103, 32, 115, 116, 114, 105, 110, 103, 33>>

\* read_w_string as it would be if a payload that runs past the buffer were
\* taken for an undecodable one
read_w_string_short_payload(r) ==
    Then(read_u16(r), LAMBDA r1, length :
        IF length > Len(r1.buffer) - r1.index
        THEN Ok([r1 EXCEPT !.index = Len(r1.buffer)],
                [length |-> length, content |-> StringParseError])
        ELSE Map(read_bytes(r1, length), LAMBDA bytes :
                 [length |-> length,
                  content |-> IF from_utf8_ok(bytes) THEN bytes ELSE StringParseError]))

\* read_w_string with the expect of read_string in place of the match
read_w_string_expect(r) ==
    Then(read_u16(r), LAMBDA r1, length :
        Then(read_bytes(r1, length), LAMBDA r2, bytes :
            IF from_utf8_ok(bytes)
            THEN Ok(r2, [length |-> length, content |-> bytes])
            ELSE Fail(r2, "Could not parse string.")))

\* A String is kept as its UTF-8 bytes.
read_w_string(r) ==
    Then(read_u16(r), LAMBDA r1, length :
        Map(read_bytes(r1, length), LAMBDA bytes :
            [length |-> length,
             content |-> IF from_utf8_ok(bytes) THEN bytes ELSE StringParseError]))

read_string(r, length) ==
    Then(read_bytes(r, length), LAMBDA r1, bytes :
        IF from_utf8_ok(bytes) THEN Ok(r1, bytes)
        ELSE Fail(r1, "Could not parse string."))

(***************************************************************************)
(* RefId: the packed 3-byte identifier and its resolution.                 *)
(***************************************************************************)
RefIdType(kind, x) == [kind |-> kind, x |-> x]

\* get_parsed_id with byte2 as the low byte
get_parsed_id_of_three_bytes(id) ==
    BitXor(BitXor(Shl(id.byte0, 16, 32), Shl(id.byte1, 8, 32)), id.byte2)

get_parsed_id(id) ==
    BitXor(BitXor(Shl(id.byte0, 16, 32), Shl(id.byte1, 8, 32)), id.byte1)

\* get_form_id without the case of magnitude 0: the subtraction wraps
get_form_id_no_zero_case(id) ==
    LET tag == BitAnd(id.byte0, 192)
    IN CASE tag = 0 ->
              LET parsed_id == get_parsed_id(id)
              IN RefIdType("Index", IF parsed_id = 0 THEN Pow2(24) - 1
                                    ELSE parsed_id - 1)
         [] tag = 64 -> RefIdType("Default", get_parsed_id(id))
         [] tag = 128 -> RefIdType("Created", get_parsed_id(id))
         [] OTHER -> RefIdType("Unknown", get_parsed_id(id))

\* get_form_id with the index left as stored
get_form_id_index_as_stored(id) ==
    LET tag == BitAnd(id.byte0, 192)
    IN CASE tag = 0 ->
              LET parsed_id == get_parsed_id(id)
              IN IF parsed_id = 0 THEN RefIdType("Default", 0)
                 ELSE RefIdType("Index", parsed_id)
         [] tag = 64 -> RefIdType("Default", get_parsed_id(id))
         [] tag = 128 -> RefIdType("Created", get_parsed_id(id))
         [] OTHER -> RefIdType("Unknown", get_parsed_id(id))

get_form_id(id) ==
    LET tag == BitAnd(id.byte0, 192)
    IN CASE tag = 0 ->
              LET parsed_id == get_parsed_id(id)
              IN IF parsed_id = 0 THEN RefIdType("Default", 0)
                 ELSE RefIdType("Index", parsed_id - 1)
         [] tag = 64 -> RefIdType("Default", get_parsed_id(id))
         [] tag = 128 -> RefIdType("Created", get_parsed_id(id))
         [] OTHER -> RefIdType("Unknown", get_parsed_id(id))

read_ref_id(r) ==
    Then(read_u8(r), LAMBDA r1, byte0 :
        Then(read_u8(r1), LAMBDA r2, byte1 :
            Map(read_u8(r2), LAMBDA byte2 :
                get_form_id([byte0 |-> byte0, byte1 |-> byte1, byte2 |-> byte2]))))

(***************************************************************************)
(* read_into_vec and the readers of arrays.                                *)
(***************************************************************************)
\* for _i in 0..count { vec.push(func(arg)) }: the loop stops at the first
\* call that panics
read_into_vec(r, count, func(_)) ==
    LET RECURSIVE Go(_, _, _)
        Go(rr, i, vec) ==
            IF ~U32Less(U32Of(i), count) THEN Ok(rr, vec)
            ELSE Then(func(rr), LAMBDA r1, x : Go(r1, i + 1, Append(vec, x)))
    IN Go(r, 0, <<>>)

w_string_content(r) == Map(read_w_string(r), LAMBDA w : w.content)

read_strings_into_vec(r, count) == read_into_vec(r, count, w_string_content)

read_u32s_into_vec(r, count) == read_into_vec(r, count, read_u32)

read_ref_ids_into_vec(r, count) == read_into_vec(r, count, read_ref_id)

read_filetime(r) ==
    Then(read_u32(r), LAMBDA r1, lo :
        Map(read_u32(r1), LAMBDA hi :
            [dw_low_date_time |-> lo, dw_high_date_time |-> hi]))

(***************************************************************************)
(* Struct literals: the fields are read in the order they are written.     *)
(***************************************************************************)
\* One field read, by the reader function the source calls for it
read_field(r, type) ==
    CASE type = "u8" -> read_u8(r)
      [] type = "u16" -> read_u16(r)
      [] type = "u32" -> read_u32(r)
      [] type = "i32" -> read_i32(r)
      [] type = "f32" -> read_f32(r)
      [] type = "ref_id" -> read_ref_id(r)
      [] type = "vsval_to_u32" -> read_vsval_to_u32(r)
      [] type = "w_string_content" -> w_string_content(r)
      [] type = "filetime" -> read_filetime(r)

\* fields: a sequence of <<name, type>>; the value is the record of the fields
read_struct(r, fields) ==
    LET RECURSIVE Go(_, _, _)
        Go(rr, i, rec) ==
            IF i > Len(fields) THEN Ok(rr, rec)
            ELSE Then(read_field(rr, fields[i][2]), LAMBDA r1, x :
                     Go(r1, i + 1, rec @@ (fields[i][1] :> x)))
    IN Go(r, 1, <<>>)

\* types: a sequence of types; the value is the tuple of the values
read_tuple(r, types) ==
    LET RECURSIVE Go(_, _, _)
        Go(rr, i, tup) ==
            IF i > Len(types) THEN Ok(rr, tup)
            ELSE Then(read_field(rr, types[i]), LAMBDA r1, x :
                     Go(r1, i + 1, Append(tup, x)))
    IN Go(r, 1, <<>>)

\* A counted array: the count read by count_type, then the elements
read_counted(r, count_type, elem(_)) ==
    Then(read_field(r, count_type), LAMBDA rr, count : read_into_vec(rr, count, elem))

(***************************************************************************)
(* The decoders of the global data types.                                  *)
(***************************************************************************)
GlobalDataType(variant, data) == [variant |-> variant, data |-> data]

Main == GlobalDataType("Main", <<>>)

MiscStatCategory(b) ==
    CASE b = 0 -> "General"
      [] b = 1 -> "Quest"
      [] b = 2 -> "Combat"
      [] b = 3 -> "Magic"
      [] b = 4 -> "Crafting"
      [] b = 5 -> "Crime"
      [] b = 6 -> "DLCStats"
      [] OTHER -> "Error"

read_misc_stat(r) ==
    Map(read_struct(r, <<<<"name", "w_string_content">>, <<"category", "u8">>,
                         <<"value", "u32">>>>),
        LAMBDA m : [m EXCEPT !.category = MiscStatCategory(@)])

MiscStats_parse(r) ==
    Map(read_counted(r, "u32", read_misc_stat),
        LAMBDA v : GlobalDataType("MiscStats", v))

read_player_location(r) ==
    Map(read_struct(r, <<<<"next_object_id", "u32">>, <<"world_space_1", "ref_id">>,
                         <<"coor_x", "i32">>, <<"coor_y", "i32">>,
                         <<"world_space_2", "ref_id">>, <<"pos_x", "f32">>,
                         <<"pos_y", "f32">>, <<"pos_z", "f32">>>>),
        LAMBDA p : p @@ [unk |-> <<>>])

read_tes_unknown0(r) ==
    read_struct(r, <<<<"form_id", "ref_id">>, <<"unknown", "u16">>>>)

\* for _i in 0..r.read_u32() * 2: the product panics under overflow checks
\* and wraps without them
read_tes(r) ==
    Then(read_counted(r, "vsval_to_u32", read_tes_unknown0), LAMBDA r1, u1 :
    Then(read_u32(r1), LAMBDA r2, n :
      LET twice == U32Mul(n, U32Of(2))
      IN IF twice.overflow /\ overflow_checks
         THEN Fail(r2, "attempt to multiply with overflow")
         ELSE Then(read_ref_ids_into_vec(r2, twice.value), LAMBDA r3, u2 :
              Then(read_counted(r3, "vsval_to_u32", read_ref_id), LAMBDA r4, u3 :
                Ok(r4, [u1 |-> u1, u2 |-> u2, u3 |-> u3])))))

read_global_variable(r) ==
    read_struct(r, <<<<"form_id", "ref_id">>, <<"value", "f32">>>>)

read_global_variables(r) == read_counted(r, "vsval_to_u32", read_global_variable)

read_magic_effect(r) ==
    Map(read_struct(r, <<<<"effect_id", "ref_id">>, <<"magnitude", "f32">>,
                         <<"duration", "u32">>, <<"area", "u32">>,
                         <<"price", "f32">>>>),
        LAMBDA e : [effect_id |-> e.effect_id,
                    info |-> [magnitude |-> e.magnitude, duration |-> e.duration,
                              area |-> e.area],
                    price |-> e.price])

read_magic_effects(r, count) == read_into_vec(r, count, read_magic_effect)

read_enchantment(r) ==
    Then(read_ref_id(r), LAMBDA r1, ref_id :
    Then(read_u32(r1), LAMBDA r2, times_used :
    Then(read_vsval_to_u32(r2), LAMBDA r3, effects_count :
    Then(read_magic_effects(r3, effects_count), LAMBDA r4, effects :
      Ok(r4, [ref_id |-> ref_id, times_used |-> times_used,
              effects |-> effects])))))

read_enchantments(r, count) == read_into_vec(r, count, read_enchantment)

read_created_objects(r) ==
    Then(read_counted(r, "vsval_to_u32", read_enchantment), LAMBDA r1, weapon :
    Then(read_counted(r1, "vsval_to_u32", read_enchantment), LAMBDA r2, armour :
    Then(read_counted(r2, "vsval_to_u32", read_enchantment), LAMBDA r3, potion :
    Then(read_counted(r3, "vsval_to_u32", read_enchantment), LAMBDA r4, poison :
      Ok(r4, [weapon_ench_table |-> weapon, armour_ench_table |-> armour,
              potion_table |-> potion, poison_table |-> poison])))))

read_effect(r) ==
    read_struct(r, <<<<"strength", "f32">>, <<"timestamp", "f32">>,
                     <<"unknown", "u32">>, <<"effect_id", "ref_id">>>>)

read_effects(r) ==
    Then(read_counted(r, "vsval_to_u32", read_effect), LAMBDA r1, mods :
    Then(read_f32(r1), LAMBDA r2, unknown1 :
    Then(read_f32(r2), LAMBDA r3, unknown2 :
      Ok(r3, [image_space_modifiers |-> mods, unknown1 |-> unknown1,
              unknown2 |-> unknown2]))))

\* Option<String>
None == [some |-> FALSE, value |-> <<>>]

Some(v) == [some |-> TRUE, value |-> v]

\* "Unbekannter Datentyp", as its UTF-8 bytes
UnbekannterDatentyp ==
    <<85, 110, 98, 101, 107, 97, 110, 110, 116, 101, 114, 32, 68, 97, 116,
      101, 110, 116, 121, 112>>

read_weather(r) ==
    Map(read_struct(r, <<<<"climate", "ref_id">>, <<"weather", "ref_id">>,
                         <<"prev_weather", "ref_id">>, <<"unk_weather_1", "ref_id">>,
                         <<"unk_weather_2", "ref_id">>, <<"regn_weather", "ref_id">>,
                         <<"cur_time", "f32">>, <<"beg_time", "f32">>,
                         <<"weather_pct", "f32">>, <<"u1", "u32">>, <<"u2", "u32">>,
                         <<"u3", "u32">>, <<"u4", "u32">>, <<"u5", "u32">>,
                         <<"u6", "u32">>, <<"u7", "f32">>, <<"u8", "u32">>,
                         <<"flags", "u8">>>>),
        LAMBDA w : w @@ [u9 |-> IF BitAnd(w.flags, 128) = 128
                                THEN Some(UnbekannterDatentyp) ELSE None,
                         u10 |-> IF BitAnd(w.flags, 64) = 64
                                 THEN Some(UnbekannterDatentyp) ELSE None])

read_audio(r) ==
    Then(read_ref_id(r), LAMBDA r1, unknown :
    Then(read_counted(r1, "vsval_to_u32", read_ref_id), LAMBDA r2, tracks :
    Then(read_ref_id(r2), LAMBDA r3, bgm :
      Ok(r3, [unknown |-> unknown, tracks |-> tracks, bgm |-> bgm]))))

read_sky_cell(r) == read_struct(r, <<<<"u1", "ref_id">>, <<"u2", "ref_id">>>>)

read_sky_cells(r) == read_counted(r, "vsval_to_u32", read_sky_cell)

convert_to_crime_type(num) ==
    CASE num = U32Of(0) -> "Theft"
      [] num = U32Of(1) -> "Pickpocketing"
      [] num = U32Of(2) -> "Trespassing"
      [] num = U32Of(3) -> "Assault"
      [] num = U32Of(4) -> "Murder"
      [] num = U32Of(5) -> "Unknown5"
      [] num = U32Of(6) -> "Lycanthropy"
      [] OTHER -> "Error"

read_crime(r) ==
    Then(read_struct(r, <<<<"witness_num", "u32">>, <<"crime_type", "u32">>,
                          <<"u1", "u8">>, <<"quantity", "u32">>,
                          <<"serial_num", "u32">>, <<"u2", "u8">>, <<"u3", "u32">>,
                          <<"elapsed_time", "f32">>, <<"victim_id", "ref_id">>,
                          <<"criminal_id", "ref_id">>, <<"item_base_id", "ref_id">>,
                          <<"ownership_id", "ref_id">>>>), LAMBDA r1, head :
    Then(read_counted(r1, "vsval_to_u32", read_ref_id), LAMBDA r2, witnesses :
    Then(read_struct(r2, <<<<"bounty", "u32">>, <<"crime_faction_id", "ref_id">>,
                           <<"is_cleared", "u8">>, <<"u4", "u16">>>>),
         LAMBDA r3, tail :
      Ok(r3, [head EXCEPT !.crime_type = convert_to_crime_type(@)]
             @@ [witnesses |-> witnesses]
             @@ [tail EXCEPT !.is_cleared = (@ # 0)]))))

read_process_lists(r) ==
    Then(read_struct(r, <<<<"u1", "f32">>, <<"u2", "f32">>, <<"u3", "f32">>,
                          <<"next_num", "u32">>>>), LAMBDA r1, head :
    Then(read_counted(r1, "vsval_to_u32", read_crime), LAMBDA r2, all_crimes :
      Ok(r2, head @@ [all_crimes |-> all_crimes])))

read_interface(r) ==
    Then(read_counted(r, "u32", read_u32), LAMBDA r1, shown_help_msg :
    Then(read_u8(r1), LAMBDA r2, u0 :
    Then(read_counted(r2, "vsval_to_u32", read_ref_id), LAMBDA r3, weapons :
    Then(read_counted(r3, "vsval_to_u32", read_ref_id), LAMBDA r4, spells :
    Then(read_counted(r4, "vsval_to_u32", read_ref_id), LAMBDA r5, shouts :
    Then(read_u8(r5), LAMBDA r6, u1 :
      Ok(r6, [shown_help_msg |-> shown_help_msg, u0 |-> u0,
              last_used_weapons |-> weapons, last_used_spells |-> spells,
              last_used_shouts |-> shouts, u1 |-> u1, u2 |-> None])))))))

read_actor_cause(r) ==
    read_struct(r, <<<<"x", "f32">>, <<"y", "f32">>, <<"z", "f32">>,
                     <<"serial_num", "u32">>, <<"actor_id", "ref_id">>>>)

ActorCauses_parse(r) ==
    Then(read_u32(r), LAMBDA r1, next_num :
    Then(read_counted(r1, "vsval_to_u32", read_actor_cause), LAMBDA r2, unknown :
      Ok(r2, GlobalDataType("ActorCauses",
                            [next_num |-> next_num, unknown |-> unknown]))))

read_detection_manager_unknown0(r) ==
    read_struct(r, <<<<"u0", "ref_id">>, <<"u1", "u32">>, <<"u2", "u32">>>>)

DetectionManagerUnknown0_parse(r) ==
    Map(read_counted(r, "vsval_to_u32", read_detection_manager_unknown0),
        LAMBDA v : GlobalDataType("DetectionManager", v))

read_location_meta_data_unknown0(r) ==
    read_struct(r, <<<<"u0", "ref_id">>, <<"u1", "u32">>>>)

LocationMetaDataUnknown0_parse(r) ==
    Map(read_counted(r, "vsval_to_u32", read_location_meta_data_unknown0),
        LAMBDA v : GlobalDataType("LocationMetaData", v))

read_quest_run_data_item_3_data_type(r) ==
    Then(read_u32(r), LAMBDA r1, data_type :
      IF data_type = U32Of(3)
      THEN Map(read_u32(r1), LAMBDA x : [variant |-> "U32", x |-> x])
      ELSE Map(read_ref_id(r1), LAMBDA x : [variant |-> "RefId", x |-> x]))

read_quest_run_data_item_3(r) ==
    Then(read_u32(r), LAMBDA r1, u1 :
    Then(read_f32(r1), LAMBDA r2, u2 :
    Then(read_counted(r2, "u32", read_quest_run_data_item_3_data_type),
         LAMBDA r3, data :
      Ok(r3, [u1 |-> u1, u2 |-> u2, quest_run_data_item_3_data |-> data]))))

read_quest_static_data_unknown_1(r) ==
    read_struct(r, <<<<"unk_1_0", "u32">>, <<"unk_1_1", "u32">>>>)

read_quest_static_data_unknown_0(r) ==
    Then(read_ref_id(r), LAMBDA r1, unk0_0 :
    Then(read_counted(r1, "vsval_to_u32", read_quest_static_data_unknown_1),
         LAMBDA r2, u1 :
      Ok(r2, [unk0_0 |-> unk0_0, u1 |-> u1])))

QuestStaticData_parse(r) ==
    Then(read_counted(r, "u32", read_quest_run_data_item_3), LAMBDA r1, u0 :
    Then(read_counted(r1, "u32", read_quest_run_data_item_3), LAMBDA r2, u1 :
    Then(read_counted(r2, "u32", read_ref_id), LAMBDA r3, u2 :
    Then(read_counted(r3, "u32", read_ref_id), LAMBDA r4, u3 :
    Then(read_counted(r4, "u32", read_ref_id), LAMBDA r5, u4 :
    Then(read_counted(r5, "vsval_to_u32", read_quest_static_data_unknown_0),
         LAMBDA r6, u5 :
    Then(read_u8(r6), LAMBDA r7, u6 :
      Ok(r7, GlobalDataType("QuestStaticData",
                            [u0 |-> u0, u1 |-> u1, u2 |-> u2, u3 |-> u3,
                             u4 |-> u4, u5 |-> u5, u6 |-> u6])))))))))

MagicFavorites_parse(r) ==
    Then(read_counted(r, "vsval_to_u32", read_ref_id), LAMBDA r1, favorited :
    Then(read_counted(r1, "vsval_to_u32", read_ref_id), LAMBDA r2, hot_keys :
      Ok(r2, GlobalDataType("MagicFavorites",
                            [favorited_magics |-> favorited,
                             magic_hot_keys |-> hot_keys]))))

\* u1 is an empty Vec whose capacity alone comes from the count
StoryEventManager_parse(r) ==
    Then(read_u32(r), LAMBDA r1, u0 :
    Then(read_vsval_to_u32(r1), LAMBDA r2, count :
      Ok(r2, GlobalDataType("StoryEventManager", [u0 |-> u0, u1 |-> <<>>]))))

read_ingredients_combined(r) ==
    read_struct(r, <<<<"ingredient0", "ref_id">>, <<"ingredient1", "ref_id">>>>)

IngredientsCombined_parse(r) ==
    Map(read_counted(r, "u32", read_ingredients_combined),
        LAMBDA v : GlobalDataType("IngredientShared", v))

read_anim_object(r) ==
    read_struct(r, <<<<"achr", "ref_id">>, <<"anim", "ref_id">>, <<"u1", "u8">>>>)

AnimObject_parse(r) ==
    Map(read_counted(r, "u32", read_anim_object),
        LAMBDA v : GlobalDataType("AnimObjects", v))

\* The tag compared by its low half only
data_type_tag_low_half(data_type) == data_type.lo

\* The value the arms of the match are compared with: every registered tag
\* is below 2^16, and 65536 stands for all tags that are not
data_type_tag(data_type) == IF data_type.hi = 0 THEN data_type.lo ELSE 65536

\* The match on data_type
read_global_data_type(data_type, data_length, data) ==
    LET r == NewReader(data)
        tag == data_type_tag(data_type)
        As(variant, res) == Map(res, LAMBDA v : GlobalDataType(variant, v))
    IN CASE tag = 0 -> MiscStats_parse(r)
         [] tag = 1 -> As("PlayerLocation", read_player_location(r))
         [] tag = 2 -> As("TES", read_tes(r))
         [] tag = 3 -> As("GlobalVariables", read_global_variables(r))
         [] tag = 4 -> As("CreatedObjects", read_created_objects(r))
         [] tag = 5 -> As("Effects", read_effects(r))
         [] tag = 6 -> As("Weather", read_weather(r))
         [] tag = 7 -> As("Audio", read_audio(r))
         [] tag = 8 -> As("SkyCells", read_sky_cells(r))
         [] tag = 100 -> As("ProcessLists", read_process_lists(r))
         [] tag = 101 -> Ok(r, GlobalDataType("Combat", data))
         [] tag = 102 -> As("Interface", read_interface(r))
         [] tag = 103 -> ActorCauses_parse(r)
         [] tag = 104 -> Ok(r, GlobalDataType("Unknown104", data))
         [] tag = 105 -> DetectionManagerUnknown0_parse(r)
         [] tag = 106 -> LocationMetaDataUnknown0_parse(r)
         [] tag = 107 -> QuestStaticData_parse(r)
         [] tag = 108 -> As("StoryTeller", Map(read_u8(r), LAMBDA b : b # 0))
         [] tag = 109 -> MagicFavorites_parse(r)
         [] tag = 110 -> As("PlayerControls",
                            read_tuple(r, <<"u8", "u8", "u8", "u16", "u8">>))
         [] tag = 111 -> StoryEventManager_parse(r)
         [] tag = 112 -> IngredientsCombined_parse(r)
         [] tag = 113 -> As("MenuControls", read_tuple(r, <<"u8", "u8">>))
         [] tag = 114 -> As("MenuTopicManager",
                            read_tuple(r, <<"ref_id", "ref_id">>))
         [] tag = 1000 -> Ok(r, GlobalDataType("TempEffects", data))
         [] tag = 1001 -> Ok(r, GlobalDataType("Papyrus", data))
         [] tag = 1002 -> AnimObject_parse(r)
         [] tag = 1003 -> As("Timer", read_tuple(r, <<"u8", "u8">>))
         [] tag = 1004 -> Ok(r, GlobalDataType("SynchronizedAnimations", data))
         [] tag = 1005 -> Ok(r, Main)
         [] OTHER -> Ok(r, Main)

\* read_global_data_record with the decoder reading from the table's own
\* reader: the next record begins where the decoder stopped
read_global_data_record_shared_cursor(r) ==
    LET Data(res) == IF res.ok THEN res ELSE res @@ [sub |-> 0]
        Decoded(r1, g) == [ok |-> g.ok, r |-> [r1 EXCEPT !.index = @ + g.r.index],
                           val |-> g.val, err |-> g.err, sub |-> g.r.index]
    IN Then(Data(read_u32(r)), LAMBDA r1, data_type :
           Then(Data(read_u32(r1)), LAMBDA r2, length :
               Then(Data(read_bytes_to_vec(r2, AsUsize(length))), LAMBDA r3, data :
                   Decoded(r2, read_global_data_type(data_type, length, data)))))

\* read_global_data_record with the decoder's reader made over all that is
\* left of the table's buffer instead of over the span
read_global_data_record_over_rest(r) ==
    LET Data(res) == IF res.ok THEN res ELSE res @@ [sub |-> 0]
        Decoded(r1, g) == [ok |-> g.ok, r |-> r1, val |-> g.val, err |-> g.err,
                           sub |-> g.r.index]
    IN Then(Data(read_u32(r)), LAMBDA r1, data_type :
           Then(Data(read_u32(r1)), LAMBDA r2, length :
               Then(Data(read_bytes_to_vec(r2, AsUsize(length))), LAMBDA r3, data :
                   Decoded(r3, read_global_data_type(data_type, length,
                       SubSeq(r2.buffer, r2.index + 1, Len(r2.buffer)))))))

\* read_global_data_record leaving the reader of the table where it was
read_global_data_record_in_place(r) ==
    LET Data(res) == IF res.ok THEN res ELSE res @@ [sub |-> 0]
        Decoded(g) == [ok |-> g.ok, r |-> r, val |-> g.val, err |-> g.err,
                       sub |-> g.r.index]
    IN Then(Data(read_u32(r)), LAMBDA r1, data_type :
           Then(Data(read_u32(r1)), LAMBDA r2, length :
               Then(Data(read_bytes_to_vec(r2, AsUsize(length))), LAMBDA r3, data :
                   Decoded(read_global_data_type(data_type, length, data)))))

\* The closure read_global_data hands to read_into_vec: one record.  The
\* result also tells how far the decoder got in its own reader (sub).
read_global_data_record(r) ==
    LET Data(res) == IF res.ok THEN res ELSE res @@ [sub |-> 0]
        Decoded(r1, g) == [ok |-> g.ok, r |-> r1, val |-> g.val, err |-> g.err,
                           sub |-> g.r.index]
    IN Then(Data(read_u32(r)), LAMBDA r1, data_type :
           Then(Data(read_u32(r1)), LAMBDA r2, length :
               Then(Data(read_bytes_to_vec(r2, AsUsize(length))), LAMBDA r3, data :
                   Decoded(r3, read_global_data_type(data_type, length, data)))))

(***************************************************************************)
(* One entry of read_change_forms.                                         *)
(***************************************************************************)
CHANGE_FORM_DECODE_ERROR == "Failed to decode compressed change form!"

ChangeForm(form_id, change_flags, data_type, version, length1, length2, data) ==
    [form_id |-> form_id, change_flags |-> change_flags, data_type |-> data_type,
     version |-> version, length1 |-> length1, length2 |-> length2, data |-> data]

\* The panic of assert_eq!(data.len(), length2 as usize)
ChangeFormSizeMismatch == "assertion failed: data.len() == length2"

\* What ZlibDecoder::read_to_end makes of a blob is the library's: an error,
\* or some bytes.
ZlibErr == [ok |-> FALSE, data |-> <<>>]

ZlibOk(data) == [ok |-> TRUE, data |-> data]

\* The payload of an entry: length1 raw bytes when length2 is zero, else
\* length1 bytes inflated (inflated: what the decoder made of them), which
\* must be length2 bytes long.  length1 and length2 are usize here.
\* read_change_form_data without assert_eq!(data.len(), length2 as usize)
read_change_form_data_unchecked(r, length1, length2, inflated) ==
    IF length2 = 0
    THEN read_bytes_to_vec(r, length1)
    ELSE Then(read_bytes_to_vec(r, length1), LAMBDA r1, compressed :
           IF ~inflated.ok THEN Fail(r1, CHANGE_FORM_DECODE_ERROR)
           ELSE Ok(r1, inflated.data))

read_change_form_data(r, length1, length2, inflated) ==
    IF length2 = 0
    THEN read_bytes_to_vec(r, length1)
    ELSE Then(read_bytes_to_vec(r, length1), LAMBDA r1, compressed :
           IF ~inflated.ok THEN Fail(r1, CHANGE_FORM_DECODE_ERROR)
           ELSE IF Len(inflated.data) # length2
           THEN Fail(r1, ChangeFormSizeMismatch)
           ELSE Ok(r1, inflated.data))

\* The panic of the last arm of the match on data_length_val
INVALID_LENGTH_VALUE == "length value on change form invalid!"

\* data_type & 0b11000000 with the mask on the two low bits instead
data_length_val_low_bits(data_type) == BitAnd(data_type, 3) * 64

\* let data_length_val = data_type & 0b11000000
data_length_val(data_type) == BitAnd(data_type, 192)

\* The body of the loop of read_change_forms
read_change_form(r, inflated) ==
    Then(read_ref_id(r), LAMBDA r1, form_id :
    Then(read_u32(r1), LAMBDA r2, change_flags :
    Then(read_u8(r2), LAMBDA r3, data_type :
    Then(read_u8(r3), LAMBDA r4, version :
      CASE data_length_val(data_type) = 0 ->
                Then(read_u8(r4), LAMBDA r5, length1 :
                Then(read_u8(r5), LAMBDA r6, length2 :
                  Map(read_change_form_data(r6, length1, length2, inflated),
                      LAMBDA data :
                        ChangeForm(form_id, change_flags, data_type, version,
                                   <<length1>>, <<length2>>, data))))
        [] data_length_val(data_type) = 64 ->
                Then(read_u16(r4), LAMBDA r5, length1 :
                Then(read_u16(r5), LAMBDA r6, length2 :
                  Map(read_change_form_data(r6, length1, length2, inflated),
                      LAMBDA data :
                        ChangeForm(form_id, change_flags, data_type, version,
                                   U16ToLeBytes(length1), U16ToLeBytes(length2),
                                   data))))
        [] data_length_val(data_type) = 128 ->
                Then(read_u32(r4), LAMBDA r5, length1 :
                Then(read_u32(r5), LAMBDA r6, length2 :
                  Map(read_change_form_data(r6, AsUsize(length1),
                                            AsUsize(length2), inflated),
                      LAMBDA data :
                        ChangeForm(form_id, change_flags, data_type, version,
                                   U32ToLeBytes(length1), U32ToLeBytes(length2),
                                   data))))
        [] OTHER -> Fail(r4, INVALID_LENGTH_VALUE)))))

(***************************************************************************)
(* The stages of parse_save_file, each as a call on the reader.            *)
(***************************************************************************)
MagicMismatch == "File invalid or corrupted, could not read magic."

\* "TESV_SAVEGAME"
TESV_SAVEGAME == <<84, 69, 83, 86, 95, 83, 65, 86, 69, 71, 65, 77, 69>>

\* read_magic comparing all but the last byte of the literal
read_magic_prefix(r) ==
    Then(read_string(r, Len(TESV_SAVEGAME)), LAMBDA r1, magic :
      IF SubSeq(magic, 1, 12) # SubSeq(TESV_SAVEGAME, 1, 12)
      THEN Fail(r1, MagicMismatch)
      ELSE Ok(r1, magic))

read_magic(r) ==
    Then(read_string(r, Len(TESV_SAVEGAME)), LAMBDA r1, magic :
      IF magic # TESV_SAVEGAME
      THEN Fail(r1, MagicMismatch)
      ELSE Ok(r1, magic))

\* impl From<u16> for PlayerSex
PlayerSex(x) ==
    CASE x = 0 -> "Male"
      [] x = 1 -> "Female"
      [] OTHER -> "Female"

read_header(r) ==
    Map(read_struct(r, <<<<"version", "u32">>, <<"save_number", "u32">>,
                         <<"player_name", "w_string_content">>,
                         <<"player_level", "u32">>,
                         <<"player_location", "w_string_content">>,
                         <<"game_date", "w_string_content">>,
                         <<"player_race_editor_id", "w_string_content">>,
                         <<"player_sex", "u16">>, <<"player_cur_exp", "f32">>,
                         <<"player_lvl_up_exp", "f32">>, <<"filetime", "filetime">>,
                         <<"shot_width", "u32">>, <<"shot_height", "u32">>,
                         <<"compression_type", "u16">>>>),
        LAMBDA h : [h EXCEPT !.player_sex = PlayerSex(@)])

\* sfr.read_bytes_to_vec((4 * header.shot_width * header.shot_height) as usize):
\* each product panics under overflow checks and wraps without them
read_screenshot_data(r, header) ==
    Once(U32Mul(U32Of(4), header.shot_width), LAMBDA four_w :
    Once(U32Mul(four_w.value, header.shot_height), LAMBDA size :
      IF (four_w.overflow \/ size.overflow) /\ overflow_checks
      THEN Fail(r, "attempt to multiply with overflow")
      ELSE read_bytes_to_vec(r, AsUsize(size.value))))

read_body_lengths(r) ==
    read_struct(r, <<<<"uncompressed_len", "u32">>, <<"compressed_len", "u32">>>>)

\* What lz4_flex::decompress makes of the rest of the file is the library's:
\* an error, or a body no longer than the size it was given.
Lz4Err == [ok |-> FALSE, data |-> <<>>]

Lz4Ok(data) == [ok |-> TRUE, data |-> data]

\* read_body taking a body of compression type 1 as it is
read_body_zlib_as_is(r, header, uncompressed_len, decompressed) ==
    LET rest == SubSeq(r.buffer, r.index + 1, Len(r.buffer))
    IN CASE header.compression_type \in {0, 1} -> Ok(r, rest)
         [] header.compression_type = 2 ->
              IF decompressed.ok THEN Ok(r, decompressed.data)
              ELSE Fail(r, "Could not decompress body! File may be corrupted.")
         [] OTHER ->
              Fail(r, "Encountered unspecified/unsupported compression type. Is the file corrupted?")

read_body(r, header, uncompressed_len, decompressed) ==
    LET rest == SubSeq(r.buffer, r.index + 1, Len(r.buffer))
    IN CASE header.compression_type = 0 -> Ok(r, rest)
         [] header.compression_type = 1 -> Fail(r, "zLib compression not supported")
         [] header.compression_type = 2 ->
              IF decompressed.ok THEN Ok(r, decompressed.data)
              ELSE Fail(r, "Could not decompress body! File may be corrupted.")
         [] OTHER ->
              Fail(r, "Encountered unspecified/unsupported compression type. Is the file corrupted?")

\* let _plugin_info_size = read_u32(); let plugin_count = read_u8();
\* read_strings_into_vec(plugin_count as u32)
\* read_plugin_info without the read of _plugin_info_size
read_plugin_info_without_size(r) ==
    Then(read_u8(r), LAMBDA r2, plugin_count :
      read_strings_into_vec(r2, U32Of(plugin_count)))

read_plugin_info(r) ==
    Then(read_u32(r), LAMBDA r1, plugin_info_size :
    Then(read_u8(r1), LAMBDA r2, plugin_count :
      read_strings_into_vec(r2, U32Of(plugin_count))))

read_light_plugin_info(r) ==
    Then(read_u16(r), LAMBDA r1, light_plugin_count :
      read_strings_into_vec(r1, U32Of(light_plugin_count)))

read_file_location_table(r) ==
    read_struct(r, <<<<"form_id_array_count_offset", "u32">>,
                     <<"unknown_table_3_offset", "u32">>,
                     <<"global_data_table_1_offset", "u32">>,
                     <<"global_data_table_2_offset", "u32">>,
                     <<"change_forms_offset", "u32">>,
                     <<"global_data_table_3_offset", "u32">>,
                     <<"global_data_table_1_count", "u32">>,
                     <<"global_data_table_2_count", "u32">>,
                     <<"global_data_table_3_count", "u32">>,
                     <<"change_form_count", "u32">>>>)

\* sfr_body.read_bytes_to_vec(4 * 15)
read_unused(r) == read_bytes_to_vec(r, 4 * 15)

\* The count of table 3 taken as it is stored
global_data_table_3_count_as_stored(file_location_table) ==
    [ok |-> TRUE, val |-> file_location_table.global_data_table_3_count,
     err |-> "none"]

\* file_location_table.global_data_table_3_count + 1: the sum panics under
\* overflow checks and wraps without them
global_data_table_3_count_plus_1(file_location_table) ==
    LET sum == U32Add(file_location_table.global_data_table_3_count, U32Of(1))
    IN IF sum.overflow /\ overflow_checks
       THEN [ok |-> FALSE, val |-> U32Zero, err |-> "attempt to add with overflow"]
       ELSE [ok |-> TRUE, val |-> sum.value, err |-> "none"]

\* let count = read_u32(); read_u32s_into_vec(count)
read_u32_array(r) == read_counted(r, "u32", read_u32)

\* let _unknown_3_table_size = read_u32(); let count = read_u32();
\* read_strings_into_vec(count)
read_unknown_3_table(r) ==
    Then(read_u32(r), LAMBDA r1, unknown_3_table_size :
      read_counted(r1, "u32", w_string_content))

\* next_stage with the change forms read before the second table
next_stage_change_forms_first(stage) ==
    CASE stage = "magic" -> "header_size"
      [] stage = "header_size" -> "header"
      [] stage = "header" -> "screenshot_data"
      [] stage = "screenshot_data" -> "body_lengths"
      [] stage = "body_lengths" -> "read_body"
      [] stage = "read_body" -> "form_version"
      [] stage = "form_version" -> "plugin_info"
      [] stage = "plugin_info" -> "light_plugin_info"
      [] stage = "light_plugin_info" -> "file_location_table"
      [] stage = "file_location_table" -> "unused"
      [] stage = "unused" -> "global_data_table_1"
      [] stage = "global_data_table_1" -> "change_forms"
      [] stage = "change_forms" -> "global_data_table_2"
      [] stage = "global_data_table_2" -> "global_data_table_3"
      [] stage = "global_data_table_3" -> "form_id_array"
      [] stage = "form_id_array" -> "visited_worldspace_array"
      [] stage = "visited_worldspace_array" -> "unknown_3_table"
      [] stage = "unknown_3_table" -> "return"
      [] OTHER -> "done"

\* The statement that follows each statement of parse_save_file
next_stage(stage) ==
    CASE stage = "magic" -> "header_size"
      [] stage = "header_size" -> "header"
      [] stage = "header" -> "screenshot_data"
      [] stage = "screenshot_data" -> "body_lengths"
      [] stage = "body_lengths" -> "read_body"
      [] stage = "read_body" -> "form_version"
      [] stage = "form_version" -> "plugin_info"
      [] stage = "plugin_info" -> "light_plugin_info"
      [] stage = "light_plugin_info" -> "file_location_table"
      [] stage = "file_location_table" -> "unused"
      [] stage = "unused" -> "global_data_table_1"
      [] stage = "global_data_table_1" -> "global_data_table_2"
      [] stage = "global_data_table_2" -> "change_forms"
      [] stage = "change_forms" -> "global_data_table_3"
      [] stage = "global_data_table_3" -> "form_id_array"
      [] stage = "form_id_array" -> "visited_worldspace_array"
      [] stage = "visited_worldspace_array" -> "unknown_3_table"
      [] stage = "unknown_3_table" -> "return"
      [] OTHER -> "done"

(***************************************************************************)
(* The reader driven call by call: any sequence of reads of a buffer.      *)
(***************************************************************************)
\* The SaveFile under construction: every field empty
NoSave ==
    [magic |-> <<>>, header |-> <<>>, screenshot_data |-> <<>>,
     body_uncompressed_len |-> U32Zero, body_compressed_len |-> U32Zero,
     form_version |-> 0, plugin_info |-> <<>>, light_plugin_info |-> <<>>,
     file_location_table |-> <<>>, global_data_table_1 |-> <<>>,
     global_data_table_2 |-> <<>>, change_forms |-> <<>>,
     global_data_table_3 |-> <<>>, form_id_array |-> <<>>,
     visited_worldspace_array |-> <<>>, unknown_3_table |-> <<>>]

\* A count-driven loop: the count, the iterations done, the results pushed,
\* and the offset of the reader when the loop began
NewLoop(count, start) ==
    [count |-> count, done |-> 0, result |-> <<>>, start |-> start]

NoLoop == NewLoop(U32Zero, 0)

\* The buffer is decoded as it was given
NotTruncated == [cut |-> FALSE, all_read |-> FALSE]

NoCall == [op |-> "none", arg |-> 0, pre |-> 0, ok |-> TRUE, val |-> <<>>]

\* Sequences over S of length at most n
SeqsUpTo(S, n) == UNION {[1 .. k -> S] : k \in 0 .. n}

\* Bytes that exercise the reads: the four vsval width tags, small lengths,
\* and a byte (255) that is no UTF-8
ReaderBytes == {0, 1, 2, 255}

\* Bytes at the edges of the ranges the codecs distinguish
EdgeBytes == {0, 1, 127, 128, 255}

Call(op, arg, res) ==
    /\ pc = "calls"
    /\ panic = "none"
    /\ sfr' = res.r
    /\ panic' = res.err
    /\ last' = [op |-> op, arg |-> arg, pre |-> sfr.index, ok |-> res.ok,
                val |-> res.val]
    /\ UNCHANGED <<sfr_body, pc, save, loop, overflow_checks, truncated>>

CallReadU8 == Call("read_u8", 0, read_u8(sfr))

CallReadU16 == Call("read_u16", 0, read_u16(sfr))

CallReadU32 == Call("read_u32", 0, read_u32(sfr))

CallReadI32 == Call("read_i32", 0, read_i32(sfr))

CallReadF32 == Call("read_f32", 0, read_f32(sfr))

CallReadBytesToVec ==
    \E n \in 0 .. MaxLen + 1 : Call("read_bytes_to_vec", n, read_bytes_to_vec(sfr, n))

CallReadString ==
    \E n \in 0 .. MaxLen + 1 : Call("read_string", n, read_string(sfr, n))

CallReadWString == Call("read_w_string", 0, read_w_string(sfr))

CallReadVsval == Call("read_vsval", 0, read_vsval(sfr))

CallReadVsvalToU32 == Call("read_vsval_to_u32", 0, read_vsval_to_u32(sfr))

CallReadRefId == Call("read_ref_id", 0, read_ref_id(sfr))

InitCalls(buffers) ==
    /\ sfr \in {NewReader(b) : b \in buffers}
    /\ sfr_body = NewReader(<<>>)
    /\ pc = "calls"
    /\ panic = "none"
    /\ save = NoSave
    /\ loop = NoLoop
    /\ last = NoCall
    /\ overflow_checks = FALSE
    /\ truncated = NotTruncated

InitReader == InitCalls(SeqsUpTo(ReaderBytes, MaxLen))

NextReader ==
    \/ CallReadU8
    \/ CallReadU16
    \/ CallReadU32
    \/ CallReadI32
    \/ CallReadF32
    \/ CallReadBytesToVec
    \/ CallReadString
    \/ CallReadWString
    \/ CallReadVsval

SpecReader == InitReader /\ [][NextReader]_vars

InitCodec ==
    InitCalls({<<b0, b1, b2>> : b0 \in Byte, b1 \in EdgeBytes, b2 \in EdgeBytes})

NextCodec ==
    \/ CallReadVsval
    \/ CallReadVsvalToU32
    \/ CallReadRefId

SpecCodec == InitCodec /\ [][NextCodec]_vars

(***************************************************************************)
(* C1, read offset and bounds.                                             *)
(***************************************************************************)
\* The byte of the buffer at offset i (0-based), 0 past its end
ByteAt(i) == IF i < Len(sfr.buffer) THEN sfr.buffer[i + 1] ELSE 0

\* The number of bytes the last call needs from offset last.pre on, by the
\* format: fixed widths, the given length, the 16-bit length prefix, the
\* width tag of a vsval
Needs ==
    CASE last.op = "read_u8" -> 1
      [] last.op = "read_u16" -> 2
      [] last.op \in {"read_u32", "read_i32", "read_f32"} -> 4
      [] last.op \in {"read_bytes_to_vec", "read_string"} -> last.arg
      [] last.op = "read_w_string" ->
           IF last.pre + 2 > Len(sfr.buffer) THEN 2
           ELSE 2 + ByteAt(last.pre) + 256 * ByteAt(last.pre + 1)
      [] last.op \in {"read_vsval", "read_vsval_to_u32"} ->
           IF last.pre + 1 > Len(sfr.buffer) THEN 1
           ELSE CASE ByteAt(last.pre) % 4 = 1 -> 2
                  [] ByteAt(last.pre) % 4 = 2 -> 3
                  [] OTHER -> 1
      [] last.op = "read_ref_id" -> 3
      [] OTHER -> 0

\* C1: after any sequence of reads the offset is within [0, L], and a read
\* that needs n bytes with offset + n > L fails with the out-of-bounds
\* condition and returns no data.
C1_OffsetInBounds ==
    /\ sfr.index >= 0
    /\ sfr.index <= Len(sfr.buffer)
    /\ (last.op # "none" /\ last.pre + Needs > Len(sfr.buffer))
         => (~last.ok /\ panic = OutOfBounds /\ last.val = <<>>)

\* A vsval read that starts inside the buffer, consumes the last byte and
\* fails for the byte its width tag asks for
C1_Witness ==
    /\ last.op = "read_vsval"
    /\ last.pre > 0
    /\ last.pre < Len(sfr.buffer)
    /\ panic = OutOfBounds
    /\ sfr.index = Len(sfr.buffer)

(***************************************************************************)
(* C2, the vsval decoding.                                                 *)
(***************************************************************************)
\* The number the format gives the vsval at offset last.pre
VsvalNumber ==
    LET b0 == ByteAt(last.pre)
        b1 == ByteAt(last.pre + 1)
        b2 == ByteAt(last.pre + 2)
    IN CASE b0 % 4 = 0 -> (b0 - (b0 % 4)) \div 4
         [] b0 % 4 = 1 -> (b1 * 256 + b0) \div 4
         [] b0 % 4 = 2 -> (b2 * 65536 + b1 * 256 + b0) \div 4
         [] OTHER -> 0

VsvalWidth == Needs

\* C2: read_vsval yields, by the width tag b0 & 3, (b0 & 0xFC) >> 2 from one
\* byte, ((b1 << 8) | b0) >> 2 from two, ((b2 << 16) | (b1 << 8) | b0) >> 2
\* from three, and 0 for tag 3 without failing; read_vsval_to_u32 yields the
\* same number.
C2_VsvalDecoding ==
    /\ (last.op = "read_vsval" /\ last.ok) =>
         /\ last.val.x = VsvalNumber
         /\ sfr.index = last.pre + VsvalWidth
         /\ last.val.kind = CASE ByteAt(last.pre) % 4 = 1 -> "U16"
                              [] ByteAt(last.pre) % 4 = 2 -> "U32"
                              [] OTHER -> "U8"
    /\ (last.op = "read_vsval_to_u32" /\ last.ok) =>
         /\ last.val = U32(VsvalNumber \div 65536, VsvalNumber % 65536)
         /\ AsUsize(last.val) = VsvalNumber
         /\ sfr.index = last.pre + VsvalWidth
    /\ (last.op \in {"read_vsval", "read_vsval_to_u32"}
          /\ last.pre < Len(sfr.buffer) /\ ByteAt(last.pre) % 4 = 3)
         => (last.ok /\ panic = "none")

\* A three-byte vsval with all value bits set has been decoded
C2_Witness ==
    /\ last.op = "read_vsval"
    /\ last.ok
    /\ last.pre = 0
    /\ sfr.buffer = <<254, 255, 255>>
    /\ last.val = VSVal("U32", 4194303)

(***************************************************************************)
(* C3, the RefId classification.                                           *)
(***************************************************************************)
\* The magnitude of the identifier at offset last.pre, as get_parsed_id
\* combines byte0 and byte1
Magnitude == ByteAt(last.pre) * 65536 + ByteAt(last.pre + 1) * 257

\* C3: byte0 & 0b11000000 = 0 gives Index(magnitude - 1), or Default(0) for
\* magnitude 0; 64 gives Default(magnitude); 128 Created(magnitude); 192
\* Unknown(magnitude); the value is never below 0 (no underflow).
C3_RefIdClassification ==
    (last.op = "read_ref_id" /\ last.ok) =>
        /\ last.val.x >= 0
        /\ last.val =
             CASE ByteAt(last.pre) \div 64 = 0 ->
                    IF Magnitude = 0 THEN RefIdType("Default", 0)
                    ELSE RefIdType("Index", Magnitude - 1)
               [] ByteAt(last.pre) \div 64 = 1 -> RefIdType("Default", Magnitude)
               [] ByteAt(last.pre) \div 64 = 2 -> RefIdType("Created", Magnitude)
               [] OTHER -> RefIdType("Unknown", Magnitude)

\* The identifier 00 00 xx has been resolved: magnitude 0, so Default(0)
C3_Witness ==
    /\ last.op = "read_ref_id"
    /\ last.ok
    /\ last.pre = 0
    /\ ByteAt(0) = 0
    /\ ByteAt(1) = 0
    /\ last.val = RefIdType("Default", 0)

(***************************************************************************)
(* parse_save_file, statement by statement; read_global_data and           *)
(* read_change_forms, iteration by iteration.                              *)
(***************************************************************************)
\* A statement that reads from the file reader (body = FALSE) or the body
\* reader (body = TRUE): it panics, or gives res.val and moves on
Advance(stage, body, res, newsave, newloop) ==
    /\ pc = stage
    /\ panic = "none"
    /\ IF body
       THEN sfr_body' = res.r /\ UNCHANGED sfr
       ELSE sfr' = res.r /\ UNCHANGED sfr_body
    /\ panic' = res.err
    /\ pc' = IF res.ok THEN next_stage(stage) ELSE pc
    /\ save' = IF res.ok THEN newsave ELSE save
    /\ loop' = IF res.ok THEN newloop ELSE loop
    /\ last' = [op |-> stage, arg |-> 0,
                pre |-> IF body THEN sfr_body.index ELSE sfr.index,
                ok |-> res.ok, val |-> <<>>]
    /\ UNCHANGED <<overflow_checks, truncated>>

ReadMagic ==
    LET res == read_magic(sfr)
    IN Advance("magic", FALSE, res, [save EXCEPT !.magic = res.val], loop)

ReadHeaderSize ==
    Advance("header_size", FALSE, read_u32(sfr), save, loop)

ReadHeader ==
    LET res == read_header(sfr)
    IN Advance("header", FALSE, res, [save EXCEPT !.header = res.val], loop)

ReadScreenshotData ==
    LET res == read_screenshot_data(sfr, save.header)
    IN Advance("screenshot_data", FALSE, res,
               [save EXCEPT !.screenshot_data =
                   [height |-> save.header.shot_height,
                    width |-> save.header.shot_width, data |-> res.val]],
               loop)

ReadBodyLengths ==
    LET res == read_body_lengths(sfr)
    IN Advance("body_lengths", FALSE, res,
               [save EXCEPT !.body_uncompressed_len = res.val.uncompressed_len,
                            !.body_compressed_len = res.val.compressed_len],
               loop)

\* The outcomes of lz4_flex::decompress the model draws from: an error, or
\* one of outputs that is no longer than the declared size
Lz4Outcomes(outputs, uncompressed_len) ==
    {Lz4Err} \cup {Lz4Ok(b) : b \in {o \in outputs : Len(o) <= AsUsize(uncompressed_len)}}

\* let body_buffer = read_body(sfr, &header, uncompressed_len);
\* let mut sfr_body = SaveFileReader::new(body_buffer)
ReadBody(outputs) ==
    /\ pc = "read_body"
    /\ panic = "none"
    /\ \E decompressed \in
            IF save.header.compression_type = 2
            THEN Lz4Outcomes(outputs, save.body_uncompressed_len)
            ELSE {Lz4Err} :
         LET res == read_body(sfr, save.header, save.body_uncompressed_len,
                              decompressed)
         IN /\ panic' = res.err
            /\ pc' = IF res.ok THEN next_stage(pc) ELSE pc
            /\ sfr_body' = IF res.ok THEN NewReader(res.val) ELSE sfr_body
            /\ last' = [op |-> "read_body", arg |-> 0, pre |-> sfr.index,
                        ok |-> res.ok, val |-> <<>>]
    /\ UNCHANGED <<sfr, save, loop, overflow_checks, truncated>>

ReadFormVersion ==
    LET res == read_u8(sfr_body)
    IN Advance("form_version", TRUE, res, [save EXCEPT !.form_version = res.val],
               loop)

ReadPluginInfo ==
    LET res == read_plugin_info(sfr_body)
    IN Advance("plugin_info", TRUE, res, [save EXCEPT !.plugin_info = res.val],
               loop)

ReadLightPluginInfo ==
    LET res == read_light_plugin_info(sfr_body)
    IN Advance("light_plugin_info", TRUE, res,
               [save EXCEPT !.light_plugin_info = res.val], loop)

ReadFileLocationTable ==
    LET res == read_file_location_table(sfr_body)
    IN Advance("file_location_table", TRUE, res,
               [save EXCEPT !.file_location_table = res.val], loop)

\* ReadUnused with the cursor put at the stored offset of table 1 afterwards
ReadUnusedSeekingTable1 ==
    LET res == read_unused(sfr_body)
        at == AsUsize(save.file_location_table.global_data_table_1_offset)
        sought == [res EXCEPT !.r.index = IF at <= Len(sfr_body.buffer) THEN at ELSE @]
    IN Advance("unused", TRUE, sought, save,
               NewLoop(save.file_location_table.global_data_table_1_count,
                       sought.r.index))

\* The skip of the unused space, and the call of read_global_data for table 1
ReadUnused ==
    LET res == read_unused(sfr_body)
    IN Advance("unused", TRUE, res, save,
               NewLoop(save.file_location_table.global_data_table_1_count,
                       res.r.index))

\* One iteration of a loop over the body reader
Iterate(stage, op, res, extra(_)) ==
    /\ pc = stage
    /\ panic = "none"
    /\ U32Less(U32Of(loop.done), loop.count)
    /\ sfr_body' = res.r
    /\ panic' = res.err
    /\ loop' = IF res.ok
               THEN [loop EXCEPT !.done = @ + 1, !.result = Append(@, res.val)]
               ELSE loop
    /\ last' = [op |-> op, arg |-> 0, pre |-> sfr_body.index, ok |-> res.ok,
                val |-> res.val] @@ extra(res)
    /\ UNCHANGED <<sfr, pc, save, overflow_checks, truncated>>

\* The end of a loop: its Vec is returned and the next statement begins
Finish(stage, newsave, count) ==
    /\ pc = stage
    /\ panic = "none"
    /\ ~U32Less(U32Of(loop.done), loop.count)
    /\ panic' = count.err
    /\ pc' = IF count.ok THEN next_stage(stage) ELSE pc
    /\ save' = newsave
    /\ loop' = IF count.ok THEN NewLoop(count.val, sfr_body.index) ELSE loop
    /\ last' = [op |-> stage, arg |-> 0, pre |-> loop.start, ok |-> count.ok,
                val |-> <<>>]
    /\ UNCHANGED <<sfr, sfr_body, overflow_checks, truncated>>

Count(c) == [ok |-> TRUE, val |-> c, err |-> "none"]

GlobalDataRecord(stage) ==
    Iterate(stage, "read_global_data_record", read_global_data_record(sfr_body),
            LAMBDA res : [sub |-> res.sub])

GlobalData1Record == GlobalDataRecord("global_data_table_1")

GlobalData1Return ==
    Finish("global_data_table_1",
           [save EXCEPT !.global_data_table_1 = loop.result],
           Count(save.file_location_table.global_data_table_2_count))

GlobalData2Record == GlobalDataRecord("global_data_table_2")

GlobalData2Return ==
    Finish("global_data_table_2",
           [save EXCEPT !.global_data_table_2 = loop.result],
           Count(save.file_location_table.change_form_count))

\* The lengths an inflated blob may have in the model
MaxInflated == 2

\* The outcomes of ZlibDecoder::read_to_end the model draws from
ZlibOutcomes == {ZlibErr} \cup {ZlibOk([i \in 1 .. n |-> 170]) : n \in 0 .. MaxInflated}

\* One entry; last tells whether the entry reached the ZlibDecoder
\* (inflating) and what the decoder made of the blob (inflated)
ChangeFormsEntry ==
    \E inflated \in ZlibOutcomes :
        LET inflating(res) ==
                IF res.ok THEN \E i \in DOMAIN res.val.length2 : res.val.length2[i] # 0
                ELSE res.err \in {CHANGE_FORM_DECODE_ERROR, ChangeFormSizeMismatch}
        IN Iterate("change_forms", "read_change_form",
                   read_change_form(sfr_body, inflated),
                   LAMBDA res : [inflating |-> inflating(res),
                                 inflated |-> IF inflating(res) THEN inflated
                                              ELSE ZlibErr])

ChangeFormsReturn ==
    Finish("change_forms", [save EXCEPT !.change_forms = loop.result],
           global_data_table_3_count_plus_1(save.file_location_table))

GlobalData3Record == GlobalDataRecord("global_data_table_3")

GlobalData3Return ==
    Finish("global_data_table_3",
           [save EXCEPT !.global_data_table_3 = loop.result], Count(U32Zero))

ReadFormIdArray ==
    LET res == read_u32_array(sfr_body)
    IN Advance("form_id_array", TRUE, res, [save EXCEPT !.form_id_array = res.val],
               loop)

ReadVisitedWorldspaceArray ==
    LET res == read_u32_array(sfr_body)
    IN Advance("visited_worldspace_array", TRUE, res,
               [save EXCEPT !.visited_worldspace_array = res.val], loop)

ReadUnknown3Table ==
    LET res == read_unknown_3_table(sfr_body)
    IN Advance("unknown_3_table", TRUE, res,
               [save EXCEPT !.unknown_3_table = res.val], loop)

\* SaveFile { .. }: the value is returned
Return ==
    /\ pc = "return"
    /\ panic = "none"
    /\ pc' = next_stage(pc)
    /\ UNCHANGED <<sfr, sfr_body, panic, save, loop, last, overflow_checks, truncated>>

(***************************************************************************)
(* Inputs: byte streams laid out by the format.                            *)
(***************************************************************************)
RECURSIVE Concat(_)
Concat(seqs) == IF seqs = <<>> THEN <<>> ELSE Head(seqs) \o Concat(Tail(seqs))

Le32(n) == U32ToLeBytes(U32Of(n))

Zeros(n) == [i \in 1 .. n |-> 0]

\* A global-data record: tag (a u32), declared length, the bytes that follow
Record(tag, length, data) == U32ToLeBytes(tag) \o Le32(length) \o data

\* Records with the terminal tag, with unregistered tags (one of them 1005
\* in its low half only), with registered tags whose decoders read none,
\* some or all of their span, or more than it holds, and a record whose
\* declared length exceeds the bytes present
Records ==
    {Record(U32Of(1005), 0, <<>>),
     Record(U32Of(1005), 2, <<1, 2>>),
     Record(U32Of(1005), 3, <<1>>),
     Record(U32Of(9), 1, <<7>>),
     Record(U32Of(115), 0, <<>>),
     Record(U32(1, 1005), 1, <<0>>),
     Record(U32(1, 108), 0, <<>>),
     Record(U32Max, 0, <<>>),
     Record(U32Of(101), 2, <<1, 2>>),
     Record(U32Of(108), 0, <<>>),
     Record(U32Of(108), 1, <<1>>),
     Record(U32Of(108), 2, <<0, 9>>),
     Record(U32Of(113), 1, <<5>>),
     Record(U32Of(113), 3, <<5, 6, 7>>),
     Record(U32Of(8), 1, <<0>>),
     Record(U32Of(8), 1, <<4>>),
     Record(U32Of(8), 7, <<4, 0, 0, 1, 64, 0, 2>>)}

\* A change-form entry: the identifier 00 00 05, change flags 1, the
\* combined byte, version 3, then what follows (length fields and payload)
Entry(data_type, rest) == <<0, 0, 5, 1, 0, 0, 0, data_type, 3>> \o rest

\* Entries of each length width, raw and compressed, with lengths that
\* differ between the widths, with too few payload bytes, and with the
\* invalid width
Entries ==
    {Entry(1, <<2, 0, 7, 8>>),
     Entry(0, <<1, 2, 9>>),
     Entry(0, <<3, 0, 7>>),
     Entry(64, <<2, 0, 0, 0, 7, 8>>),
     Entry(65, <<1, 0, 0, 1, 9>>),
     Entry(64, <<1, 0, 1, 0, 9>>),
     Entry(128, <<2, 0, 0, 0, 0, 0, 0, 0, 7, 8>>),
     Entry(128, <<1, 0, 0, 0, 2, 0, 0, 0, 9>>),
     Entry(128, <<0, 0, 0, 128, 0, 0, 0, 0, 7>>),
     Entry(191, <<0, 0, 0, 0, 0, 0, 1, 0>>),
     Entry(192, <<1, 0, 7>>),
     Entry(255, <<>>)}

\* The tables of at most MaxRecords items
Tables(items) == {Concat(t) : t \in SeqsUpTo(items, MaxRecords)}

\* A FileLocationTable with the given counts and offsets of zero
Counts(table_1, table_2, table_3, change_forms) ==
    [form_id_array_count_offset |-> U32Zero, unknown_table_3_offset |-> U32Zero,
     global_data_table_1_offset |-> U32Zero, global_data_table_2_offset |-> U32Zero,
     change_forms_offset |-> U32Zero, global_data_table_3_offset |-> U32Zero,
     global_data_table_1_count |-> table_1, global_data_table_2_count |-> table_2,
     global_data_table_3_count |-> table_3, change_form_count |-> change_forms]

(***************************************************************************)
(* read_global_data over a table: the reader stands after one byte, the    *)
(* count is any up to one more than the table can hold.                    *)
(***************************************************************************)
InitLoop(stage, tables) ==
    /\ sfr = NewReader(<<>>)
    /\ \E t \in tables : sfr_body = [index |-> 1, buffer |-> <<255>> \o t]
    /\ pc = stage
    /\ panic = "none"
    /\ \E n \in 0 .. MaxRecords + 1 :
         /\ loop = NewLoop(U32Of(n), 1)
         /\ save = [NoSave EXCEPT !.file_location_table =
                        Counts(U32Of(n), U32Zero, U32Zero, U32Of(n))]
    /\ last = NoCall
    /\ overflow_checks = FALSE
    /\ truncated = NotTruncated

InitGlobalData == InitLoop("global_data_table_1", Tables(Records))

NextGlobalData ==
    \/ GlobalData1Record
    \/ GlobalData1Return

SpecGlobalData == InitGlobalData /\ [][NextGlobalData]_vars

InitChangeForms == InitLoop("change_forms", Tables(Entries))

NextChangeForms ==
    \/ ChangeFormsEntry
    \/ ChangeFormsReturn

SpecChangeForms == InitChangeForms /\ [][NextChangeForms]_vars

(***************************************************************************)
(* The bytes of the body reader, as the format lays them out.              *)
(***************************************************************************)
BodyAt(i) == IF i < Len(sfr_body.buffer) THEN sfr_body.buffer[i + 1] ELSE 0

\* Whether n bytes are left at offset i of the body reader
BodyHas(i, n) == i + n <= Len(sfr_body.buffer)

\* The little-endian number of the n bytes (n <= 4) at offset i; a value
\* of 2^31 or more is beyond every buffer and kept as UsizeHuge
RECURSIVE BodyLe(_, _)
BodyLe(i, n) ==
    IF n = 0 THEN 0
    ELSE IF n = 4 /\ BodyAt(i + 3) >= 128 THEN UsizeHuge
    ELSE BodyLe(i, n - 1) + BodyAt(i + n - 1) * Pow2(8 * (n - 1))

BodyBytes(i, n) == [k \in 1 .. n |-> BodyAt(i + k - 1)]

(***************************************************************************)
(* C4, the width of the length fields of a change form.                    *)
(***************************************************************************)
\* The two high bits of the combined byte of the entry at offset last.pre:
\* it follows the 3-byte identifier and the 4-byte change flags
Selector == BodyAt(last.pre + 7) \div 64

\* The width the format gives the length fields
SelectedWidth == CASE Selector = 0 -> 1 [] Selector = 1 -> 2 [] OTHER -> 4

\* C4: the width of both length fields of every entry is chosen by combined
\* byte & 0b11000000 (0: 1 byte, 64: 2 bytes, 128: 4 bytes); 192 is fatal:
\* the decode aborts there and no list of change forms is returned, whatever
\* entries came before.
C4_LengthWidthSelector ==
    /\ last.op = "read_change_form" =>
         /\ last.ok =>
              /\ Selector \in {0, 1, 2}
              /\ last.val.length1 = BodyBytes(last.pre + 9, SelectedWidth)
              /\ last.val.length2 =
                   BodyBytes(last.pre + 9 + SelectedWidth, SelectedWidth)
         /\ (panic = INVALID_LENGTH_VALUE) <=>
                (BodyHas(last.pre, 9) /\ Selector = 3)
    /\ panic # "none" => (pc = "change_forms" /\ save.change_forms = <<>>)

\* A valid entry was decoded, then an entry with selector 192 aborted the
\* decode
C4_Witness ==
    /\ last.op = "read_change_form"
    /\ loop.done = 1
    /\ BodyHas(last.pre, 9)
    /\ Selector = 3
    /\ panic = INVALID_LENGTH_VALUE

(***************************************************************************)
(* C5, the payload of a change form.                                       *)
(***************************************************************************)
Length1 == BodyLe(last.pre + 9, SelectedWidth)

Length2 == BodyLe(last.pre + 9 + SelectedWidth, SelectedWidth)

PayloadAt == last.pre + 9 + 2 * SelectedWidth

\* C5: with length2 = 0 the payload is the next length1 bytes as they are;
\* with length2 > 0 the next length1 bytes are inflated and the payload has
\* exactly length2 bytes; a blob that inflates to another size fails the
\* whole decode and yields no change form.
C5_PayloadSize ==
    last.op = "read_change_form" =>
        /\ last.ok =>
             /\ sfr_body.index = PayloadAt + Length1
             /\ Length2 = 0 =>
                  /\ ~last.inflating
                  /\ last.val.data = BodyBytes(PayloadAt, Length1)
             /\ Length2 > 0 =>
                  /\ last.inflating
                  /\ last.inflated.ok
                  /\ last.val.data = last.inflated.data
                  /\ Len(last.val.data) = Length2
        /\ (last.inflating /\ last.inflated.ok
              /\ Len(last.inflated.data) # Length2) =>
             /\ ~last.ok
             /\ panic = ChangeFormSizeMismatch
             /\ pc = "change_forms"
             /\ Len(loop.result) = loop.done
             /\ save.change_forms = <<>>

\* A blob declared to inflate to 1 byte inflated to 2: the decode failed
C5_Witness ==
    /\ last.op = "read_change_form"
    /\ last.inflating
    /\ last.inflated.ok
    /\ Length2 = 1
    /\ Len(last.inflated.data) = 2
    /\ panic = ChangeFormSizeMismatch

(***************************************************************************)
(* C6, the tags without a decoder.                                         *)
(***************************************************************************)
\* The tags read_global_data_type has a decoder for
RegisteredTags == (0 .. 8) \cup (100 .. 114) \cup (1000 .. 1004)

\* Whether the tag of the record at offset i is 1005 or not registered: a
\* tag with a byte set in its high half is no registered tag
TagIsTerminal(i) ==
    \/ BodyLe(i + 2, 2) # 0
    \/ BodyLe(i, 2) \notin RegisteredTags

DeclaredLength(i) == BodyLe(i + 4, 4)

\* Whether the record at offset i, header and span, lies within the buffer
RecordFits(i) ==
    /\ BodyHas(i, 8)
    /\ DeclaredLength(i) <= Len(sfr_body.buffer) - (i + 8)

\* C6: a record whose tag is 1005 or not registered decodes to Main,
\* whatever its declared length and content; if the declared length fits in
\* the rest of the buffer, the table is not aborted and the next record is
\* read after it.
C6_UnregisteredTagIsMain ==
    (/\ last.op = "read_global_data_record"
     /\ TagIsTerminal(last.pre)
     /\ RecordFits(last.pre)) =>
        /\ last.ok
        /\ last.val = Main
        /\ panic = "none"
        /\ pc = "global_data_table_1"
        /\ loop.done >= 1
        /\ loop.result[loop.done] = Main
        /\ sfr_body.index = last.pre + 8 + DeclaredLength(last.pre)

\* A record of an unregistered tag with a non-empty span was decoded to Main
\* as the second record of its table
C6_Witness ==
    /\ last.op = "read_global_data_record"
    /\ BodyLe(last.pre, 2) \notin RegisteredTags \cup {1005}
    /\ DeclaredLength(last.pre) > 0
    /\ RecordFits(last.pre)
    /\ loop.done = 2
    /\ last.val = Main

(***************************************************************************)
(* C7, the parent cursor over a table.                                     *)
(***************************************************************************)
\* Where the reader stands after n records that begin at offset i, by
\* their declared lengths
RECURSIVE AfterRecords(_, _)
AfterRecords(i, n) ==
    IF n = 0 THEN i ELSE AfterRecords(i + 8 + DeclaredLength(i), n - 1)

\* C7: over a table that decodes, the parent cursor advances by the sum over
\* the records of 8 + declared length; the bytes a decoder reads of its span
\* (last.sub: fewer than the span, or none) never move the place the next
\* tag is read from.
C7_ParentCursorBySpan ==
    /\ (last.op = "read_global_data_record" /\ last.ok) =>
          /\ last.sub <= DeclaredLength(last.pre)
          /\ sfr_body.index = last.pre + 8 + DeclaredLength(last.pre)
          /\ sfr_body.index = AfterRecords(loop.start, loop.done)
    /\ last.op = "global_data_table_1" =>
          sfr_body.index = AfterRecords(last.pre, Len(save.global_data_table_1))

\* A table of two records was returned whose first record has a span of two
\* bytes, of which its decoder (StoryTeller) read one
C7_Witness ==
    /\ last.op = "global_data_table_1"
    /\ Len(save.global_data_table_1) = 2
    /\ BodyLe(last.pre, 4) = 108
    /\ DeclaredLength(last.pre) = 2
    /\ save.global_data_table_1[1] = GlobalDataType("StoryTeller", FALSE)

(***************************************************************************)
(* Whole files, laid out by the format.                                    *)
(***************************************************************************)
Le16(n) == U16ToLeBytes(n)

\* A length-prefixed string
WStr(bytes) == Le16(Len(bytes)) \o bytes

\* A header with the given player name, screenshot size (u32s) and
\* compression type
HeaderBytesOf(name, player_sex, shot_width, shot_height, compression_type) ==
    Concat(<<Le32(12), Le32(1), WStr(name), Le32(7), WStr(<<>>), WStr(<<48>>),
             WStr(<<>>), Le16(player_sex), Zeros(4), <<0, 0, 128, 63>>, Zeros(8),
             U32ToLeBytes(shot_width), U32ToLeBytes(shot_height),
             Le16(compression_type)>>)

HeaderBytes(name, shot_width, shot_height, compression_type) ==
    HeaderBytesOf(name, 1, shot_width, shot_height, compression_type)

\* A FileLocationTable: six offsets of zero, then the four counts (u32s)
LocationBytesOf(offsets, table_1, table_2, table_3, change_forms) ==
    Concat([k \in 1 .. 6 |-> U32ToLeBytes(offsets[k])])
    \o U32ToLeBytes(table_1) \o U32ToLeBytes(table_2)
    \o U32ToLeBytes(table_3) \o U32ToLeBytes(change_forms)

LocationBytes(table_1, table_2, table_3, change_forms) ==
    LocationBytesOf([k \in 1 .. 6 |-> U32Zero], table_1, table_2, table_3,
                    change_forms)

\* A counted array of u32s
ArrayBytes(n) == Le32(n) \o Concat([i \in 1 .. n |-> Le32(i)])

\* A body: form version, plugin list, light-plugin list, location table,
\* the unused space, the tables, the arrays, the string table
BodyOf(plugins, light_plugins, location, tables, ids, worldspaces, strings) ==
    Concat(<<<<78>>, Le32(0), <<Len(plugins)>>, Concat(plugins),
             Le16(Len(light_plugins)), Concat(light_plugins),
             location, Zeros(60), tables,
             ArrayBytes(ids), ArrayBytes(worldspaces),
             Le32(0), Le32(Len(strings)), Concat(strings)>>)

TerminalRecord == Record(U32Of(1005), 0, <<>>)

StoryTellerRecord == Record(U32Of(108), 2, <<1, 9>>)

RawFormEntry == Entry(0, <<1, 0, 9>>)

\* A record of length 0 whose tag is in no arm of read_global_data_type
UnknownTagRecord == Record(U32Of(9), 0, <<>>)

\* The body with nothing in it but one record of table 3, of an unknown tag
UnknownTagBody ==
    BodyOf(<<>>, <<>>, LocationBytes(U32Zero, U32Zero, U32Zero, U32Zero),
           UnknownTagRecord, 0, 0, <<>>)

\* The body with nothing in it but the one record table 3 always has
MinimalBody ==
    BodyOf(<<>>, <<>>, LocationBytes(U32Zero, U32Zero, U32Zero, U32Zero),
           TerminalRecord, 0, 0, <<>>)

\* A body with something in every part
FullBody ==
    BodyOf(<<WStr(<<83>>)>>, <<WStr(<<>>), WStr(<<76, 255>>)>>,
           LocationBytes(U32Of(1), U32Of(2), U32Of(1), U32Of(1)),
           Concat(<<StoryTellerRecord, TerminalRecord, StoryTellerRecord, RawFormEntry,
                    StoryTellerRecord, TerminalRecord>>),
           1, 2, <<WStr(<<85>>)>>)

\* What the six offset fields of a FileLocationTable store: zeros, the
\* largest u32, small offsets inside the body, offsets past the tables
StoredOffsets ==
    {[k \in 1 .. 6 |-> U32Zero], [k \in 1 .. 6 |-> U32Max],
     [k \in 1 .. 6 |-> U32Of(k)], [k \in 1 .. 6 |-> U32Of(100 + 8 * k)]}

\* The minimal body, the body with something in every part, and a body
\* whose first table is said to hold two records and holds one, with the
\* given offsets
MinimalBodyAt(offsets) ==
    BodyOf(<<>>, <<>>, LocationBytesOf(offsets, U32Zero, U32Zero, U32Zero, U32Zero),
           TerminalRecord, 0, 0, <<>>)

FullBodyAt(offsets) ==
    BodyOf(<<WStr(<<83>>)>>, <<WStr(<<>>), WStr(<<76, 255>>)>>,
           LocationBytesOf(offsets, U32Of(1), U32Of(2), U32Of(1), U32Of(1)),
           Concat(<<StoryTellerRecord, TerminalRecord, StoryTellerRecord, RawFormEntry,
                    StoryTellerRecord, TerminalRecord>>),
           1, 2, <<WStr(<<85>>)>>)

ShortBodyAt(offsets) ==
    BodyOf(<<>>, <<>>, LocationBytesOf(offsets, U32Of(2), U32Zero, U32Zero, U32Zero),
           TerminalRecord, 0, 0, <<>>)

OffsetBodies ==
    UNION {{MinimalBodyAt(o), FullBodyAt(o), ShortBodyAt(o)} : o \in StoredOffsets}

\* Bodies whose tables hold up to MaxRecords items each, one table at a
\* time; bodies whose third count is the largest u32; a body whose records
\* run out
Bodies ==
    {MinimalBody, FullBody, UnknownTagBody} \cup OffsetBodies
    \cup {BodyOf(<<>>, <<>>,
                 LocationBytes(U32Of(n), U32Zero, U32Zero, U32Zero),
                 Concat([i \in 1 .. n |-> StoryTellerRecord]) \o TerminalRecord, 0, 0, <<>>)
            : n \in 1 .. MaxRecords}
    \cup {BodyOf(<<>>, <<>>,
                 LocationBytes(U32Zero, U32Zero, U32Zero, U32Of(n)),
                 Concat([i \in 1 .. n |-> RawFormEntry]) \o TerminalRecord, 0, 0, <<>>)
            : n \in 1 .. MaxRecords}
    \cup {BodyOf(<<>>, <<>>,
                 LocationBytes(U32Zero, U32Zero, U32Of(n), U32Zero),
                 Concat([i \in 1 .. n |-> StoryTellerRecord]) \o TerminalRecord, n, 0, <<>>)
            : n \in 1 .. MaxRecords}
    \cup {BodyOf(<<>>, <<>>, LocationBytes(U32Zero, U32Zero, U32Max, U32Zero),
                 tables, 0, 0, <<>>) : tables \in {<<>>, TerminalRecord}}
    \cup {BodyOf(<<>>, <<>>, LocationBytes(U32Of(2), U32Zero, U32Zero, U32Zero),
                 TerminalRecord, 0, 0, <<>>)}

\* A file: magic, header size, header, screenshot, the two body lengths,
\* and what follows them
FileOf(magic, header, screenshot, uncompressed_len, rest) ==
    Concat(<<magic, Le32(Len(header)), header, screenshot,
             Le32(uncompressed_len), Le32(Len(rest)), rest>>)

\* A header of a file without screenshot
PlainHeader(compression_type) == HeaderBytes(<<>>, U32Zero, U32Zero, compression_type)

\* A header with a player name and a screenshot of one pixel
PixelHeader(compression_type) ==
    HeaderBytes(<<80>>, U32Of(1), U32Of(1), compression_type)

\* The file with something in every part
FullFile ==
    FileOf(TESV_SAVEGAME, PixelHeader(0), Zeros(4), Len(FullBody), FullBody)

\* What the model lets lz4_flex::decompress return
DecompressedBodies == {<<>>, MinimalBody, FullBody}

\* Uncompressed files of every body; files of every compression type, with
\* a body that is no body and declared sizes around those of the bodies
\* above; a file whose screenshot size overflows a u32; files whose first
\* bytes are not the magic; the full file cut at every offset
Files ==
    {FileOf(TESV_SAVEGAME, PlainHeader(0), <<>>, Len(b), b) : b \in Bodies}
    \cup {FileOf(TESV_SAVEGAME, PixelHeader(c), Zeros(4), n, <<1, 2, 3>>) :
            c \in {0, 1, 2, 3, 65535},
            n \in {0, Len(MinimalBody), Len(FullBody)}}
    \cup {FileOf(TESV_SAVEGAME, HeaderBytes(<<>>, U32(16384, 0), U32Of(4), 0),
                 <<>>, Len(MinimalBody), MinimalBody)}
    \cup {magic \o Le32(0) \o PlainHeader(0) :
            magic \in {<<>>, SubSeq(TESV_SAVEGAME, 1, 12),
                       SubSeq(TESV_SAVEGAME, 1, 12) \o <<101>>,
                       <<116>> \o SubSeq(TESV_SAVEGAME, 2, 13),
                       SubSeq(TESV_SAVEGAME, 1, 12) \o <<255>>,
                       <<32>> \o TESV_SAVEGAME}}
    \cup {SubSeq(FullFile, 1, k) : k \in 0 .. Len(FullFile)}

(***************************************************************************)
(* parse_save_file(buf) for every file above, in either build.             *)
(***************************************************************************)
InitFiles(files) ==
    /\ \E buf \in files : sfr = NewReader(buf)
    /\ sfr_body = NewReader(<<>>)
    /\ pc = "magic"
    /\ panic = "none"
    /\ save = NoSave
    /\ loop = NoLoop
    /\ last = NoCall
    /\ overflow_checks \in BOOLEAN
    /\ truncated = NotTruncated

Init == InitFiles(Files)

Next ==
    \/ ReadMagic
    \/ ReadHeaderSize
    \/ ReadHeader
    \/ ReadScreenshotData
    \/ ReadBodyLengths
    \/ ReadBody(DecompressedBodies)
    \/ ReadFormVersion
    \/ ReadPluginInfo
    \/ ReadLightPluginInfo
    \/ ReadFileLocationTable
    \/ ReadUnused
    \/ GlobalData1Record
    \/ GlobalData1Return
    \/ GlobalData2Record
    \/ GlobalData2Return
    \/ ChangeFormsEntry
    \/ ChangeFormsReturn
    \/ GlobalData3Record
    \/ GlobalData3Return
    \/ ReadFormIdArray
    \/ ReadVisitedWorldspaceArray
    \/ ReadUnknown3Table
    \/ Return

Spec == Init /\ [][Next]_vars

(***************************************************************************)
(* C8, read_body.                                                          *)
(***************************************************************************)
\* C8: with compression type 0 the body is all bytes that follow the two
\* length fields, as they are; with type 1 and with every type other than 0
\* and 2 the decode aborts and there is no body at all.
C8_ReadBodyDispatch ==
    last.op = "read_body" =>
        /\ sfr.index = last.pre
        /\ save.header.compression_type = 0 =>
             /\ last.ok
             /\ pc = "form_version"
             /\ sfr_body = NewReader(SubSeq(sfr.buffer, last.pre + 1,
                                            Len(sfr.buffer)))
        /\ save.header.compression_type \notin {0, 2} =>
             /\ ~last.ok
             /\ panic # "none"
             /\ pc = "read_body"
             /\ sfr_body = NewReader(<<>>)

\* A file of compression type 1 with three bytes after the length fields
\* was refused
C8_Witness ==
    /\ last.op = "read_body"
    /\ save.header.compression_type = 1
    /\ Len(sfr.buffer) = last.pre + 3
    /\ panic = "zLib compression not supported"

(***************************************************************************)
(* C9, the magic.                                                          *)
(***************************************************************************)
\* The ASCII bytes of TESV_SAVEGAME
MagicLiteral == <<84, 69, 83, 86, 95, 83, 65, 86, 69, 71, 65, 77, 69>>

StartsWithMagic ==
    /\ Len(sfr.buffer) >= 13
    /\ SubSeq(sfr.buffer, 1, 13) = MagicLiteral

\* C9: the decode gets past the magic check exactly when the first 13 bytes
\* are TESV_SAVEGAME; with any other first 13 bytes, or fewer, it fails
\* there and there is no SaveFile.
C9_MagicCheck ==
    /\ pc # "magic" => StartsWithMagic
    /\ (last.op = "magic" /\ StartsWithMagic) =>
          (last.ok /\ pc = "header_size" /\ sfr.index = 13 /\ panic = "none")
    /\ (last.op # "none" /\ ~StartsWithMagic) =>
          (last.op = "magic" /\ ~last.ok /\ panic # "none" /\ pc = "magic"
           /\ save = NoSave)

\* Thirteen bytes that differ from the literal in the last one only were
\* refused
C9_Witness ==
    /\ last.op = "magic"
    /\ Len(sfr.buffer) >= 13
    /\ SubSeq(sfr.buffer, 1, 12) = SubSeq(MagicLiteral, 1, 12)
    /\ sfr.buffer[13] # MagicLiteral[13]
    /\ panic = MagicMismatch

(***************************************************************************)
(* C10, the order of the stages.                                           *)
(***************************************************************************)
\* The stages in the order of the format: those read from the file, the
\* decompression, those read from the body
FileStages == <<"magic", "header_size", "header", "screenshot_data", "body_lengths">>

BodyStages ==
    <<"form_version", "plugin_info", "light_plugin_info", "file_location_table",
      "unused", "global_data_table_1", "global_data_table_2", "change_forms",
      "global_data_table_3", "form_id_array", "visited_worldspace_array",
      "unknown_3_table">>

StageOrder == FileStages \o <<"read_body">> \o BodyStages \o <<"return", "done">>

\* The stages that are loops over a count of the FileLocationTable
LoopStages ==
    {"global_data_table_1", "global_data_table_2", "change_forms",
     "global_data_table_3"}

InSeq(x, seq) == \E i \in DOMAIN seq : seq[i] = x

\* One step of the decode, as the order of the stages allows it
StageStep ==
    /\ pc' # pc =>
         /\ \E i \in 1 .. Len(StageOrder) - 1 :
                pc = StageOrder[i] /\ pc' = StageOrder[i + 1]
         /\ panic' = "none"
    \* the reader a stage reads from, and where it begins to read
    /\ InSeq(pc, FileStages) =>
         (last'.pre = sfr.index /\ sfr_body' = sfr_body)
    /\ InSeq(pc, BodyStages) =>
         /\ sfr' = sfr
         /\ IF pc \in LoopStages /\ ~U32Less(U32Of(loop.done), loop.count)
            THEN last'.pre = loop.start /\ sfr_body' = sfr_body
            ELSE last'.pre = sfr_body.index
    \* no seeking: the buffers stay, the offsets never decrease
    /\ sfr'.buffer = sfr.buffer
    /\ sfr'.index >= sfr.index
    /\ pc # "read_body" => sfr_body'.buffer = sfr_body.buffer
    /\ pc = "read_body" => (sfr' = sfr /\ sfr_body'.index = 0)
    /\ sfr_body'.index >= sfr_body.index
    \* the shapes of the skip and the arrays
    /\ (pc = "unused" /\ pc' # pc) => sfr_body'.index = sfr_body.index + 60
    /\ (pc \in {"form_id_array", "visited_worldspace_array"} /\ pc' # pc) =>
         sfr_body'.index = sfr_body.index + 4 + 4 * BodyLe(sfr_body.index, 4)
    /\ (pc = "unknown_3_table" /\ pc' # pc) =>
         Len(save'.unknown_3_table) = BodyLe(sfr_body.index + 4, 4)

\* C10: the stages are decoded in one fixed order, none out of order and
\* none by seeking: magic, header size, header, screenshot, the two length
\* fields, the body, then over the body form version, plugin list,
\* light-plugin list, FileLocationTable, the 60-byte skip, table 1, table 2,
\* change forms, table 3, the two counted arrays of u32s, the string table;
\* each stage begins where the one before it ended and no offset decreases.
C10_StageOrder == (pc = "magic" /\ sfr.index = 0) /\ [][StageStep]_vars

\* A decode went through every stage and returned a SaveFile with entries
\* in the tables and arrays
C10_Witness ==
    /\ pc = "done"
    /\ panic = "none"
    /\ Len(save.global_data_table_2) = 2
    /\ Len(save.change_forms) = 1
    /\ Len(save.global_data_table_3) = 2
    /\ Len(save.visited_worldspace_array) = 2
    /\ Len(save.unknown_3_table) = 1
    /\ sfr_body.index = Len(sfr_body.buffer)

(***************************************************************************)
(* C11, the number of records read per table.                              *)
(***************************************************************************)
\* C11: a decode that succeeds has read as many records of table 1, table 2
\* and the change forms as the FileLocationTable stores, and one more than
\* the stored count c of table 3, for every c up to 2^32 - 1 (the sum does
\* not wrap to 0).
C11_TableCounts ==
    (pc = "done" /\ panic = "none") =>
        /\ U32Of(Len(save.global_data_table_1)) =
             save.file_location_table.global_data_table_1_count
        /\ U32Of(Len(save.global_data_table_2)) =
             save.file_location_table.global_data_table_2_count
        /\ U32Of(Len(save.change_forms)) =
             save.file_location_table.change_form_count
        /\ Len(save.global_data_table_3) >= 1
        /\ U32Of(Len(save.global_data_table_3) - 1) =
             save.file_location_table.global_data_table_3_count

(***************************************************************************)
(* C12, the minimal container.                                             *)
(***************************************************************************)
\* The minimal container: the magic, a header with compression type 0 and
\* a screenshot of size 0, no plugins, all counts 0, the one record of
\* table 3, two arrays of count 0 and a string table of count 0
MinimalFile ==
    FileOf(TESV_SAVEGAME, PlainHeader(0), <<>>, Len(MinimalBody), MinimalBody)

\* What the claim supposes of the container, as far as it has been decoded
MinimalSoFar ==
    /\ save.header.compression_type = 0
    /\ save.header.shot_width = U32Zero
    /\ save.header.shot_height = U32Zero
    /\ save.plugin_info = <<>>
    /\ save.light_plugin_info = <<>>
    /\ save.file_location_table.global_data_table_1_count = U32Zero
    /\ save.file_location_table.global_data_table_2_count = U32Zero
    /\ save.file_location_table.global_data_table_3_count = U32Zero
    /\ save.file_location_table.change_form_count = U32Zero

\* C12: the decode of a minimal container (magic, compression type 0,
\* screenshot of size 0, no plugins, all counts 0) succeeds with tables 1
\* and 2, the change forms and the arrays empty, and the count of table 3
\* is 1 although 0 is stored.
C12_MinimalContainer ==
    /\ sfr.buffer = MinimalFile =>
         /\ panic = "none"
         /\ pc = "done" =>
              /\ save.magic = MagicLiteral
              /\ MinimalSoFar
              /\ save.screenshot_data.data = <<>>
              /\ save.form_id_array = <<>>
              /\ save.visited_worldspace_array = <<>>
              /\ save.unknown_3_table = <<>>
    /\ (pc = "global_data_table_3" /\ MinimalSoFar) => loop.count = U32Of(1)
    /\ (pc = "done" /\ MinimalSoFar) =>
         /\ save.global_data_table_1 = <<>>
         /\ save.global_data_table_2 = <<>>
         /\ save.change_forms = <<>>
         /\ Len(save.global_data_table_3) = 1

\* The minimal container was decoded to the end
C12_Witness ==
    /\ sfr.buffer = MinimalFile
    /\ pc = "done"
    /\ panic = "none"
    /\ save.file_location_table.global_data_table_3_count = U32Zero
    /\ save.global_data_table_3 = <<Main>>


----------------------------------------------------------------------------
\* Decoding a buffer again with its last byte cut off

\* The caller of parse_save_file, after a decode that succeeded, hands the
\* same buffer without its last byte to a new decode. all_read records
\* whether the first decode read the body to its last byte.
Truncate ==
    /\ pc = "done"
    /\ panic = "none"
    /\ ~truncated.cut
    /\ sfr' = NewReader(SubSeq(sfr.buffer, 1, Len(sfr.buffer) - 1))
    /\ sfr_body' = NewReader(<<>>)
    /\ pc' = "magic"
    /\ save' = NoSave
    /\ loop' = NoLoop
    /\ last' = NoCall
    /\ truncated' = [cut |-> TRUE,
                     all_read |-> sfr_body.index = Len(sfr_body.buffer)]
    /\ UNCHANGED <<panic, overflow_checks>>

\* Uncompressed files of every body, as they are and followed by one byte
\* that belongs to nothing, and the file with something in every part
TruncationFiles ==
    {FileOf(TESV_SAVEGAME, PlainHeader(0), <<>>, Len(body), body \o tail) :
        body \in Bodies, tail \in {<<>>, <<0>>}}
    \cup {FullFile}

InitTruncation == InitFiles(TruncationFiles)

NextTruncation == Next \/ Truncate

SpecTruncation == InitTruncation /\ [][NextTruncation]_vars

\* No reader's cursor is past its buffer
WithinBuffers ==
    /\ sfr.index <= Len(sfr.buffer)
    /\ sfr_body.index <= Len(sfr_body.buffer)

----------------------------------------------------------------------------
\* Results of decodes that met something unknown

\* The minimal container with tag 9 in place of tag 1005 in its one record
UnknownTagFile ==
    FileOf(TESV_SAVEGAME, PlainHeader(0), <<>>, Len(UnknownTagBody), UnknownTagBody)

\* The SaveFile a decode without anything unknown returns for MinimalFile
DecodedMinimalFile ==
    [magic |-> MagicLiteral,
     header |->
         [version |-> U32Of(12), save_number |-> U32Of(1), player_name |-> <<>>,
          player_level |-> U32Of(7), player_location |-> <<>>, game_date |-> <<48>>,
          player_race_editor_id |-> <<>>, player_sex |-> "Female",
          player_cur_exp |-> [sign |-> 0, exponent |-> 0, fraction |-> 0],
          player_lvl_up_exp |-> [sign |-> 0, exponent |-> 127, fraction |-> 0],
          filetime |-> [dw_low_date_time |-> U32Zero, dw_high_date_time |-> U32Zero],
          shot_width |-> U32Zero, shot_height |-> U32Zero, compression_type |-> 0],
     screenshot_data |-> [data |-> <<>>, height |-> U32Zero, width |-> U32Zero],
     body_uncompressed_len |-> U32Of(Len(MinimalBody)),
     body_compressed_len |-> U32Of(Len(MinimalBody)),
     form_version |-> 78,
     plugin_info |-> <<>>,
     light_plugin_info |-> <<>>,
     file_location_table |->
         [form_id_array_count_offset |-> U32Zero, unknown_table_3_offset |-> U32Zero,
          global_data_table_1_offset |-> U32Zero, global_data_table_2_offset |-> U32Zero,
          change_forms_offset |-> U32Zero, global_data_table_3_offset |-> U32Zero,
          global_data_table_1_count |-> U32Zero, global_data_table_2_count |-> U32Zero,
          global_data_table_3_count |-> U32Zero, change_form_count |-> U32Zero],
     global_data_table_1 |-> <<>>,
     global_data_table_2 |-> <<>>,
     change_forms |-> <<>>,
     global_data_table_3 |-> <<Main>>,
     form_id_array |-> <<>>,
     visited_worldspace_array |-> <<>>,
     unknown_3_table |-> <<>>]

\* C14: a decode that met a record of an unknown tag succeeds with a result
\* that carries a non-empty warning list, a decode that met nothing unknown
\* with a result that carries an empty one: the result for the minimal
\* container is the one above, and the result for the same container with
\* an unknown tag in its record differs from it.
C14_WarningList ==
    /\ (pc = "done" /\ sfr.buffer = MinimalFile) => save = DecodedMinimalFile
    /\ (pc = "done" /\ sfr.buffer = UnknownTagFile) =>
           (panic = "none" /\ save # DecodedMinimalFile)

----------------------------------------------------------------------------
\* The decoders of enumerated fields, called on structures that store each
\* value of the field

\* The largest of the small values stored in an enumerated field
MaxStored == 8

StoredBytes == (0 .. MaxStored) \cup {255}

StoredSexes == (0 .. MaxStored) \cup {255, 256, 65535}

StoredCrimeTypes ==
    {U32Of(n) : n \in 0 .. MaxStored} \cup {U32(1, 0), U32(1, 6), U32Max}

\* A header that stores player_sex
HeaderOfSex(player_sex) == HeaderBytesOf(<<>>, player_sex, U32Zero, U32Zero, 0)

\* A crime without witnesses that stores crime_type and is_cleared
CrimeBytes(crime_type, is_cleared) ==
    Concat(<<Zeros(4), U32ToLeBytes(crime_type), <<0>>, Zeros(8), <<0>>, Zeros(8),
             Zeros(12), <<0>>, Zeros(4), Zeros(3), <<is_cleared>>, Zeros(2)>>)

\* The payload of a MiscStats record of one statistic without name that
\* stores category
MiscStatsBytes(category) ==
    Concat(<<Le32(1), WStr(<<>>), <<category>>, Zeros(4)>>)

CallReadHeader == Call("read_header", 0, read_header(sfr))

CallReadCrime == Call("read_crime", 0, read_crime(sfr))

CallMiscStatsParse == Call("MiscStats_parse", 0, MiscStats_parse(sfr))

InitEnums ==
    InitCalls({HeaderOfSex(x) : x \in StoredSexes}
              \cup {CrimeBytes(t, c) : t \in StoredCrimeTypes, c \in StoredBytes}
              \cup {MiscStatsBytes(b) : b \in StoredBytes})

NextEnums ==
    \/ CallReadHeader
    \/ CallReadCrime
    \/ CallMiscStatsParse

SpecEnums == InitEnums /\ [][NextEnums]_vars

\* The first call made on the buffer has decoded all of it
Decoded(op, buffer) ==
    /\ last.op = op
    /\ last.pre = 0
    /\ sfr.buffer = buffer
    /\ last.ok
    /\ sfr.index = Len(buffer)

\* The values the types of the enumerated fields have for the stored values
\* the format knows
RecognizedCrimeTypes ==
    {"Theft", "Pickpocketing", "Trespassing", "Assault", "Murder", "Unknown5",
     "Lycanthropy"}

RecognizedCategories ==
    {"General", "Quest", "Combat", "Magic", "Crafting", "Crime", "DLCStats"}

RecognizedSexes == {"Male", "Female"}

\* A crime type above 6 and a misc-stat category above 6 decode to a value
\* that no recognized stored value decodes to
UnrecognizedCrimeTypeAndCategory ==
    /\ \A t \in StoredCrimeTypes, c \in StoredBytes :
           (Decoded("read_crime", CrimeBytes(t, c)) /\ U32Less(U32Of(6), t)) =>
               last.val.crime_type \notin RecognizedCrimeTypes
    /\ \A b \in StoredBytes :
           (Decoded("MiscStats_parse", MiscStatsBytes(b)) /\ b > 6) =>
               last.val.data[1].category \notin RecognizedCategories

\* C15: a crime type above 6, a misc-stat category above 6, an is_cleared
\* byte above 1 and a player sex above 1 each decode to a value that no
\* recognized stored value decodes to.
C15_UnrecognizedVariant ==
    /\ UnrecognizedCrimeTypeAndCategory
    /\ \A t \in StoredCrimeTypes, c \in StoredBytes :
           (Decoded("read_crime", CrimeBytes(t, c)) /\ c > 1) =>
               last.val.is_cleared \notin BOOLEAN
    /\ \A x \in StoredSexes :
           (Decoded("read_header", HeaderOfSex(x)) /\ x > 1) =>
               last.val.player_sex \notin RecognizedSexes

----------------------------------------------------------------------------
\* The codecs of vsvals and of RefIds, once more

\* The encoding rule of a vsval: the value shifted left by 2 with the width
\* tag in the two low bits, little-endian in 1, 2 or 3 bytes
VsvalEncode(x, tag) ==
    LET n == x * 4 + tag
    IN CASE tag = 0 -> <<n % 256>>
         [] tag = 1 -> <<n % 256, (n \div 256) % 256>>
         [] tag = 2 -> <<n % 256, (n \div 256) % 256, (n \div 65536) % 256>>

\* C16: the bytes a read_vsval with width tag 0, 1 or 2 has decoded are the
\* encoding, with the same width tag, of the value it returned.
C16_VsvalRoundTrip ==
    (last.op = "read_vsval" /\ last.ok /\ ByteAt(last.pre) % 4 # 3) =>
        /\ last.val.x < Pow2(6 + 8 * (ByteAt(last.pre) % 4))
        /\ VsvalEncode(last.val.x, ByteAt(last.pre) % 4)
             = SubSeq(sfr.buffer, last.pre + 1, sfr.index)

\* A three-byte vsval whose third byte holds value bits went round
C16_Witness ==
    /\ last.op = "read_vsval"
    /\ last.ok
    /\ last.pre = 0
    /\ sfr.buffer = <<2, 128, 127>>
    /\ VsvalEncode(last.val.x, 2) = <<2, 128, 127>>

\* The three bytes of the identifier read last
LastRefId ==
    [byte0 |-> ByteAt(last.pre), byte1 |-> ByteAt(last.pre + 1),
     byte2 |-> ByteAt(last.pre + 2)]

\* The vectors whose identifiers exist
RefIdVectors ==
    (last.op = "read_ref_id" /\ last.ok) =>
        /\ (LastRefId.byte0 = 0 /\ Magnitude = 0) => last.val = RefIdType("Default", 0)
        /\ LastRefId.byte0 = 64 => last.val = RefIdType("Default", Magnitude)
        /\ LastRefId.byte0 = 128 => last.val = RefIdType("Created", Magnitude)
        /\ LastRefId.byte0 = 192 => last.val = RefIdType("Unknown", Magnitude)

\* C17 as stated: there are identifiers for the five vectors, the one with
\* byte0 = 0x00 and magnitude 5 among them, and they resolve to Default(0),
\* Index(4), Default(magnitude), Created(magnitude) and Unknown(magnitude),
\* where magnitude is what get_parsed_id computes.
C17_TestVectors ==
    /\ \E byte1 \in Byte, byte2 \in Byte :
           get_parsed_id([byte0 |-> 0, byte1 |-> byte1, byte2 |-> byte2]) = 5
    /\ RefIdVectors
    /\ (last.op = "read_ref_id" /\ last.ok /\ LastRefId.byte0 = 0 /\ Magnitude = 5) =>
           last.val = RefIdType("Index", 4)

\* C17 amended: as stated, with magnitude 257 and Index(256) in place of
\* magnitude 5 and Index(4); with byte0 = 0x00 the magnitude is byte1 * 257.
C17_TestVectorsOfByte1 ==
    /\ RefIdVectors
    /\ (last.op = "read_ref_id" /\ last.ok /\ LastRefId.byte0 = 0) =>
           /\ Magnitude = LastRefId.byte1 * 257
           /\ Magnitude = 257 => last.val = RefIdType("Index", 256)

\* The identifier 00 01 xx has been resolved: magnitude 257, so Index(256)
C17_Witness ==
    /\ last.op = "read_ref_id"
    /\ last.ok
    /\ last.pre = 0
    /\ LastRefId.byte0 = 0
    /\ LastRefId.byte1 = 1
    /\ last.val = RefIdType("Index", 256)

\* C18: read_ref_id moves the cursor by 3, and what it returns is what the
\* identifier resolves to whatever its third byte: the magnitude is
\* (byte0 << 16) xor (byte1 << 8) xor byte1.
C18_ThirdByteIgnored ==
    (last.op = "read_ref_id" /\ last.ok) =>
        /\ sfr.index = last.pre + 3
        /\ last.val.x \in {Magnitude, Magnitude - 1}
        /\ \A byte2 \in Byte :
               get_form_id([LastRefId EXCEPT !.byte2 = byte2]) = last.val

\* An identifier whose third byte is 255 was resolved to the value its
\* first two bytes give
C18_Witness ==
    /\ last.op = "read_ref_id"
    /\ last.ok
    /\ last.pre = 0
    /\ sfr.buffer = <<64, 1, 255>>
    /\ sfr.index = 3
    /\ last.val = RefIdType("Default", 4194561)

----------------------------------------------------------------------------
\* The reads of the cursor, once more

\* The bytes from the offset of the last call on, as far as the buffer goes
LastBytes(n) == [i \in 1 .. n |-> ByteAt(last.pre + i - 1)]

\* The little-endian value of the bytes at the offset of the last call
LittleEndian ==
    CASE last.op = "read_u8" -> ByteAt(last.pre)
      [] last.op = "read_u16" -> ByteAt(last.pre) + 256 * ByteAt(last.pre + 1)
      [] last.op = "read_u32" ->
           U32(ByteAt(last.pre + 2) + 256 * ByteAt(last.pre + 3),
               ByteAt(last.pre) + 256 * ByteAt(last.pre + 1))
      [] last.op = "read_i32" ->
           ByteAt(last.pre) + 256 * ByteAt(last.pre + 1) + 65536 * ByteAt(last.pre + 2)
           + Pow2(24) * (IF ByteAt(last.pre + 3) < 128 THEN ByteAt(last.pre + 3)
                         ELSE ByteAt(last.pre + 3) - 256)
      [] last.op = "read_f32" ->
           [sign |-> ByteAt(last.pre + 3) \div 128,
            exponent |-> (ByteAt(last.pre + 3) % 128) * 2
                         + ByteAt(last.pre + 2) \div 128,
            fraction |-> (ByteAt(last.pre + 2) % 128) * 65536
                         + ByteAt(last.pre + 1) * 256 + ByteAt(last.pre)]

FixedWidthReads == {"read_u8", "read_u16", "read_u32", "read_i32", "read_f32"}

ReadsTheNextBytes ==
    /\ (last.op \in FixedWidthReads /\ last.ok) =>
         /\ last.val = LittleEndian
         /\ sfr.index = last.pre + Needs
    /\ (last.op = "read_bytes_to_vec" /\ last.ok) =>
         /\ last.val = LastBytes(last.arg)
         /\ sfr.index = last.pre + last.arg

\* C19: a successful read_u8, read_u16, read_u32, read_i32 or read_f32
\* returns the little-endian value of the 1, 2, 4, 4 or 4 bytes at the
\* offset and moves the offset by that width; a successful
\* read_bytes_to_vec(n) returns the next n bytes and moves the offset by n;
\* no read changes the buffer.
C19_FixedWidthReads ==
    []ReadsTheNextBytes /\ [][sfr'.buffer = sfr.buffer]_vars

\* read_i32 has read the four bytes 01 02 00 FF as a negative number
C19_Witness ==
    /\ last.op = "read_i32"
    /\ last.ok
    /\ sfr.buffer = <<1, 2, 0, 255>>
    /\ sfr.index = 4
    /\ last.val = 513 - Pow2(24)

\* The length prefix at the offset of the last call
PrefixedLength == ByteAt(last.pre) + 256 * ByteAt(last.pre + 1)

\* Whether the last call was a read_w_string whose prefix and payload are
\* in the buffer
WStringFits ==
    /\ last.op = "read_w_string"
    /\ last.pre + 2 <= Len(sfr.buffer)
    /\ last.pre + 2 + PrefixedLength <= Len(sfr.buffer)

\* The payload of the string read last
Payload == SubSeq(sfr.buffer, last.pre + 3, last.pre + 2 + PrefixedLength)

WStringRead ==
    WStringFits =>
        /\ last.ok
        /\ panic = "none"
        /\ sfr.index = last.pre + 2 + PrefixedLength
        /\ last.val.length = PrefixedLength
        /\ last.val.content =
             IF from_utf8_ok(Payload) THEN Payload ELSE StringParseError

\* The read after a read_w_string starts at the byte after its payload
NextFieldRead ==
    (WStringFits /\ last'.op = "read_u8" /\ sfr.index < Len(sfr.buffer)) =>
        /\ last'.ok
        /\ last'.pre = last.pre + 2 + PrefixedLength
        /\ last'.val = ByteAt(last.pre + 2 + PrefixedLength)

\* C20: read_w_string reads a 16-bit little-endian length and that many
\* bytes; whether or not they are UTF-8 it succeeds with the cursor moved by
\* 2 + length, with the sentinel string as content when they are not, and
\* the next read is of the following field.
C20_WStringSentinel ==
    []WStringRead /\ [][NextFieldRead]_vars

\* A string of one byte that is no UTF-8 was read as the sentinel, with a
\* field left after it
C20_Witness ==
    /\ last.op = "read_w_string"
    /\ last.ok
    /\ sfr.buffer = <<1, 0, 255, 2>>
    /\ sfr.index = 3
    /\ panic = "none"
    /\ last.val = [length |-> 1, content |-> StringParseError]

----------------------------------------------------------------------------
\* The body and its layout

RECURSIVE AfterWStrings(_, _)
AfterWStrings(i, n) ==
    IF n = 0 THEN i ELSE AfterWStrings(i + 2 + BodyLe(i, 2), n - 1)

\* The offset of the light-plugin count when the plugin count is at offset at
LightPluginsAt(at) == AfterWStrings(at + 1, BodyAt(at))

\* The offset of the FileLocationTable when the plugin count is at offset at
LocationTableAt(at) ==
    AfterWStrings(LightPluginsAt(at) + 2, BodyLe(LightPluginsAt(at), 2))

\* The names of the ten fields in the order of the file
LocationFields ==
    <<"form_id_array_count_offset", "unknown_table_3_offset",
      "global_data_table_1_offset", "global_data_table_2_offset",
      "change_forms_offset", "global_data_table_3_offset",
      "global_data_table_1_count", "global_data_table_2_count",
      "global_data_table_3_count", "change_form_count">>

\* The layout of the head of the body when the plugin count is the byte at
\* offset at: the plugin names follow it, the 16-bit light-plugin count
\* follows the last of them, and the ten fields follow the last light-plugin
\* name
BodyLayout(at) ==
    /\ (last.op = "form_version" /\ last.ok) =>
         (last.pre = 0 /\ sfr_body.index = 1 /\ save.form_version = BodyAt(0))
    /\ (last.op = "plugin_info" /\ last.ok) =>
         /\ last.pre = 1
         /\ Len(save.plugin_info) = BodyAt(at)
         /\ sfr_body.index = LightPluginsAt(at)
    /\ (last.op = "light_plugin_info" /\ last.ok) =>
         /\ last.pre = LightPluginsAt(at)
         /\ Len(save.light_plugin_info) = BodyLe(last.pre, 2)
         /\ sfr_body.index = LocationTableAt(at)
    /\ (last.op = "file_location_table" /\ last.ok) =>
         /\ last.pre = LocationTableAt(at)
         /\ sfr_body.index = last.pre + 40
         /\ \A k \in 1 .. 10 :
                save.file_location_table[LocationFields[k]]
                  = U32FromLeBytes(BodyBytes(last.pre + 4 * (k - 1), 4))

\* C22 as stated: the plugin count is the byte at offset 1 of the body,
\* right after the form version; the light-plugin count follows the last
\* plugin name and the FileLocationTable the last light-plugin name.
C22_BodyLayout == BodyLayout(1)

\* C22 amended: the form version is followed by a 32-bit size that is read
\* and dropped, so the plugin count is the byte at offset 5; the rest as
\* stated.
C22_BodyLayoutAfterSize == BodyLayout(5)

\* The location table of the body with one plugin and two light plugins
\* has been read
C22_Witness ==
    /\ last.op = "file_location_table"
    /\ last.ok
    /\ sfr_body.buffer = FullBody
    /\ Len(save.plugin_info) = 1
    /\ Len(save.light_plugin_info) = 2
    /\ last.pre = 17
    /\ save.file_location_table.global_data_table_2_count = U32Of(2)


\* 4 * width * height, the product of the numbers in the header; a product
\* of 2^31 or more is kept as UsizeHuge, which exceeds every buffer
ScreenshotSize ==
    LET width == save.header.shot_width
        height == save.header.shot_height
    IN IF width = U32Zero \/ height = U32Zero THEN 0
       ELSE IF width.hi = 0 /\ height.hi = 0
               /\ width.lo <= (Pow2(29) - 1) \div height.lo
            THEN 4 * width.lo * height.lo
            ELSE UsizeHuge

\* C23: a read of the screenshot that succeeded has consumed exactly
\* 4 * width * height bytes, the product of the numbers and not its value
\* modulo 2^32, and ScreenshotData.data has that length.
C23_ScreenshotSize ==
    (last.op = "screenshot_data" /\ last.ok) =>
        /\ sfr.index - last.pre = ScreenshotSize
        /\ Len(save.screenshot_data.data) = ScreenshotSize


\* The uncompressed file without screenshot of a body
PlainFile(body) == FileOf(TESV_SAVEGAME, PlainHeader(0), <<>>, Len(body), body)

\* The SaveFile a decode returns for the file of FullBody
DecodedFullBody ==
    [DecodedMinimalFile EXCEPT
        !.body_uncompressed_len = U32Of(Len(FullBody)),
        !.body_compressed_len = U32Of(Len(FullBody)),
        !.plugin_info = <<<<83>>>>,
        !.light_plugin_info = <<<<>>, StringParseError>>,
        !.file_location_table.global_data_table_1_count = U32Of(1),
        !.file_location_table.global_data_table_2_count = U32Of(2),
        !.file_location_table.global_data_table_3_count = U32Of(1),
        !.file_location_table.change_form_count = U32Of(1),
        !.global_data_table_1 = <<GlobalDataType("StoryTeller", TRUE)>>,
        !.global_data_table_2 = <<Main, GlobalDataType("StoryTeller", TRUE)>>,
        !.change_forms =
            <<[form_id |-> RefIdType("Default", 0), change_flags |-> U32Of(1),
               data_type |-> 0, version |-> 3, length1 |-> <<1>>,
               length2 |-> <<0>>, data |-> <<9>>]>>,
        !.global_data_table_3 = <<GlobalDataType("StoryTeller", TRUE), Main>>,
        !.form_id_array = <<U32Of(1)>>,
        !.visited_worldspace_array = <<U32Of(1), U32Of(2)>>,
        !.unknown_3_table = <<<<85>>>>]

\* A SaveFile with the six offsets in its FileLocationTable
WithOffsets(decoded, offsets) ==
    [decoded EXCEPT !.file_location_table =
        [f \in DOMAIN @ |->
            IF \E k \in 1 .. 6 : LocationFields[k] = f
            THEN offsets[CHOOSE k \in 1 .. 6 : LocationFields[k] = f]
            ELSE @[f]]]

\* Whatever the offsets, the files of the minimal and of the full body
\* decode to the same SaveFile but for the offsets, and the file of the
\* short body fails in the same call at the same place
SameButForOffsets ==
    \A offsets \in StoredOffsets :
        /\ sfr.buffer = PlainFile(MinimalBodyAt(offsets)) =>
             /\ panic = "none"
             /\ pc = "done" => save = WithOffsets(DecodedMinimalFile, offsets)
        /\ sfr.buffer = PlainFile(FullBodyAt(offsets)) =>
             /\ panic = "none"
             /\ pc = "done" => save = WithOffsets(DecodedFullBody, offsets)
        /\ sfr.buffer = PlainFile(ShortBodyAt(offsets)) =>
             /\ pc # "done"
             /\ panic # "none" =>
                  /\ panic = OutOfBounds
                  /\ pc = "global_data_table_1"
                  /\ loop.done = 1
                  /\ sfr_body.index = loop.start + 16

\* The cursor over the body moves by what the reads consume, never back
BodyCursorMovesOn ==
    InSeq(pc, BodyStages) =>
        /\ sfr_body'.buffer = sfr_body.buffer
        /\ sfr_body'.index >= sfr_body.index
        /\ sfr_body' # sfr_body => last'.pre = sfr_body.index

\* C24: the six offsets of the FileLocationTable are only stored: files
\* that differ in nothing but them both decode, to SaveFiles that differ in
\* nothing but them, or both fail, and no step puts the cursor anywhere but
\* where the read before it ended.
C24_OffsetsInformational ==
    []SameButForOffsets /\ [][BodyCursorMovesOn]_vars

\* The file of the full body with the largest offsets was decoded to the end
C24_Witness ==
    /\ pc = "done"
    /\ panic = "none"
    /\ sfr_body.buffer = FullBodyAt([k \in 1 .. 6 |-> U32Max])
    /\ save.file_location_table.global_data_table_1_offset = U32Max
    /\ Len(save.global_data_table_2) = 2

----------------------------------------------------------------------------
\* The decoders of the records and their spans

\* The tags whose decoder takes the span as it is
RawTags == {101, 104, 1000, 1001, 1004}

\* Records whose span is too short for the decoder of their tag, or just long
\* enough: every registered tag with a span of no bytes; two-byte tuples
\* with one byte and with two; an array of sky cells that counts one cell
\* and holds none, or one
SpanRecords ==
    {Record(U32Of(t), 0, <<>>) : t \in RegisteredTags}
    \cup {Record(U32Of(113), 1, <<5>>), Record(U32Of(113), 2, <<5, 6>>),
          Record(U32Of(1003), 1, <<5>>), Record(U32Of(108), 1, <<1>>),
          Record(U32Of(8), 1, <<4>>), Record(U32Of(8), 7, <<4, 0, 0, 1, 64, 0, 2>>),
          Record(U32Of(114), 5, <<0, 0, 1, 64, 0>>)}

\* Each of them alone and followed by a record whose bytes are not its own
InitSpans ==
    InitLoop("global_data_table_1",
             {r \o rest : r \in SpanRecords, rest \in {<<>>, StoryTellerRecord}})

SpecSpans == InitSpans /\ [][NextGlobalData]_vars

\* A number of bytes the decoder of the record at offset i cannot do
\* without: the fixed layouts in full, the count and the counted cells of
\* SkyCells (its count being a vsval of one byte here), and for every other
\* decoder the first byte of what it reads first
SpanNeeded(i) ==
    LET tag == BodyLe(i, 2)
    IN CASE tag \in RawTags -> 0
         [] tag = 108 -> 1
         [] tag \in {113, 1003} -> 2
         [] tag \in {110, 114} -> 6
         [] tag = 8 -> IF DeclaredLength(i) = 0 THEN 1
                       ELSE 1 + 6 * (BodyAt(i + 8) \div 4)
         [] OTHER -> 1

\* C25: a decoder of a registered tag that needs more bytes than the
\* declared span of its record holds fails out of bounds in its own reader,
\* and with it the decode of the table; no decoder gets further in its
\* reader than the span is long.
C25_BoundsInsideDecoders ==
    (last.op = "read_global_data_record" /\ RecordFits(last.pre)) =>
        /\ last.sub <= DeclaredLength(last.pre)
        /\ (~TagIsTerminal(last.pre)
              /\ SpanNeeded(last.pre) > DeclaredLength(last.pre)) =>
               /\ ~last.ok
               /\ panic = OutOfBounds
               /\ pc = "global_data_table_1"
               /\ Len(loop.result) = loop.done
               /\ U32Less(U32Of(loop.done), loop.count)

\* The decoder of MenuControls, over a span of one byte and with a record
\* after it, read that byte and failed for the second
C25_Witness ==
    /\ last.op = "read_global_data_record"
    /\ last.pre = 1
    /\ sfr_body.buffer = <<255>> \o Record(U32Of(113), 1, <<5>>) \o StoryTellerRecord
    /\ ~last.ok
    /\ last.sub = 1
    /\ panic = OutOfBounds

----------------------------------------------------------------------------
\* The Weather record

\* A Weather record: six ref ids, three f32, six u32, one f32, one u32, and
\* the flags byte last
WeatherRecord(flags) == Record(U32Of(6), 63, [i \in 1 .. 62 |-> i] \o <<flags>>)

InitWeather ==
    InitLoop("global_data_table_1", {WeatherRecord(flags) : flags \in Byte})

SpecWeather == InitWeather /\ [][NextGlobalData]_vars

\* Bit n of a byte, bit 0 being the one of least weight
Bit(b, n) == (b \div Pow2(n)) % 2 = 1

\* C26: in a decoded Weather record u9 is there exactly when bit 0 of the
\* flags byte is set and u10 exactly when bit 1 is set; otherwise each is
\* None.
C26_WeatherFlags ==
    (last.op = "read_global_data_record" /\ last.ok
       /\ last.val.variant = "Weather") =>
        /\ last.val.data.u9.some <=> Bit(last.val.data.flags, 0)
        /\ last.val.data.u10.some <=> Bit(last.val.data.flags, 1)
        /\ ~last.val.data.u9.some => last.val.data.u9 = None
        /\ ~last.val.data.u10.some => last.val.data.u10 = None

----------------------------------------------------------------------------
\* Termination

\* Bodies that store the largest u32 as a count: of the first table, of the
\* second, of the change forms, of the form id array, and of the array of a
\* MiscStats record; a SkyCells record that counts 2^22 - 1 cells, and one
\* that counts and holds one
HugeCountBodies ==
    {BodyOf(<<>>, <<>>, LocationBytes(U32Max, U32Zero, U32Zero, U32Zero),
            StoryTellerRecord \o TerminalRecord, 0, 0, <<>>),
     BodyOf(<<>>, <<>>, LocationBytes(U32Zero, U32Max, U32Zero, U32Zero),
            StoryTellerRecord \o TerminalRecord, 0, 0, <<>>),
     BodyOf(<<>>, <<>>, LocationBytes(U32Zero, U32Zero, U32Zero, U32Max),
            RawFormEntry \o RawFormEntry \o TerminalRecord, 0, 0, <<>>),
     BodyOf(<<>>, <<>>, LocationBytes(U32Zero, U32Zero, U32Zero, U32Zero),
            TerminalRecord \o U32ToLeBytes(U32Max), 1, 0, <<>>),
     BodyOf(<<>>, <<>>, LocationBytes(U32Of(1), U32Zero, U32Zero, U32Zero),
            Record(U32Of(0), 4, U32ToLeBytes(U32Max)) \o TerminalRecord, 0, 0, <<>>),
     BodyOf(<<>>, <<>>, LocationBytes(U32Of(1), U32Zero, U32Zero, U32Zero),
            Record(U32Of(8), 9, <<254, 255, 255, 0, 0, 1, 64, 0, 2>>) \o TerminalRecord,
            0, 0, <<>>),
     BodyOf(<<>>, <<>>, LocationBytes(U32Of(1), U32Zero, U32Zero, U32Zero),
            Record(U32Of(8), 7, <<4, 0, 0, 1, 64, 0, 2>>) \o TerminalRecord,
            0, 0, <<>>)}

InitTermination ==
    InitFiles(Files \cup {FileOf(TESV_SAVEGAME, PlainHeader(0), <<>>, Len(b), b) :
                            b \in HugeCountBodies})

\* parse_save_file is one sequential call: while a statement is left to
\* run, it runs
SpecTermination == InitTermination /\ [][Next]_vars /\ WF_vars(Next)

\* parse_save_file has returned or has failed
Terminated == pc = "done" \/ panic # "none"

\* An iteration of a loop over a count of the FileLocationTable moves the
\* cursor on
IterationConsumes ==
    (pc' = pc /\ loop'.done = loop.done + 1) => sfr_body'.index > sfr_body.index

\* The iterations a loop has done are no more than the bytes it has read,
\* and the items an array read holds no more than the bytes read for it
IterationsBounded ==
    /\ pc \in LoopStages =>
         /\ loop.done <= sfr_body.index - loop.start
         /\ loop.done <= Len(sfr_body.buffer)
    /\ (last.op = "plugin_info" /\ last.ok) =>
         Len(save.plugin_info) <= sfr_body.index - last.pre
    /\ (last.op = "light_plugin_info" /\ last.ok) =>
         Len(save.light_plugin_info) <= sfr_body.index - last.pre
    /\ (last.op = "form_id_array" /\ last.ok) =>
         Len(save.form_id_array) <= sfr_body.index - last.pre
    /\ (last.op = "visited_worldspace_array" /\ last.ok) =>
         Len(save.visited_worldspace_array) <= sfr_body.index - last.pre
    /\ (last.op = "unknown_3_table" /\ last.ok) =>
         Len(save.unknown_3_table) <= sfr_body.index - last.pre
    /\ (last.op = "read_global_data_record" /\ last.ok
          /\ last.val.variant \in {"SkyCells", "MiscStats"}) =>
         Len(last.val.data) <= last.sub

\* C27: the decode of every buffer comes to an end, returning or failing;
\* every iteration of a loop over a stored count reads at least one byte, so
\* that a loop does no more iterations than the buffer has bytes, also when
\* the count is 2^32 - 1.
C27_Terminates ==
    /\ <>Terminated
    /\ []IterationsBounded
    /\ [][IterationConsumes]_vars

\* The loop over a first table said to hold 2^32 - 1 records failed for
\* the end of the buffer after some records
C27_Witness ==
    /\ pc = "global_data_table_1"
    /\ loop.count = U32Max
    /\ loop.done >= 2
    /\ panic = OutOfBounds
    /\ sfr_body.index <= Len(sfr_body.buffer)

====
